---------------------------- MODULE Spec2Model ----------------------------
(***************************************************************************)
(* PlanCast: the natural-language temporal resolution subsystem            *)
(* (src/utils/time_parser.py, class SmartTimeParser).                      *)
(*                                                                         *)
(* Texts are sequences of one-character strings, so that lower-casing,     *)
(* trimming, substring search and the regular expressions of the source    *)
(* are computed and not assumed.  A date-time is a record                  *)
(* [year, month, day, hour, minute]; an optional value is a sequence of    *)
(* length 0 (None) or 1 (the value).                                       *)
(***************************************************************************)
EXTENDS Integers, Sequences, FiniteSets, TLC

(***************************************************************************)
(* Bounds of the model.                                                    *)
(***************************************************************************)
\* the Reference Instant ranges over MaxDays + 1 consecutive days where the
\* Pattern Matcher is exercised on its own, and over CoreDays + 1 days where
\* all entry points are
MaxDays == 6

CoreDays == 1

\* the calls each of the two concurrent callers makes
MaxCalls == 2

(***************************************************************************)
(* Optional values (Python's None / a value).                              *)
(***************************************************************************)
None == <<>>

Some(x) == <<x>>

IsSome(o) == Len(o) = 1

Val(o) == o[1]

(***************************************************************************)
(* Characters and strings.                                                 *)
(***************************************************************************)
Digits == <<"0", "1", "2", "3", "4", "5", "6", "7", "8", "9">>

UpperAlpha == <<"A", "B", "C", "D", "E", "F", "G", "H", "I", "J", "K", "L", "M",
                "N", "O", "P", "Q", "R", "S", "T", "U", "V", "W", "X", "Y", "Z">>

LowerAlpha == <<"a", "b", "c", "d", "e", "f", "g", "h", "i", "j", "k", "l", "m",
                "n", "o", "p", "q", "r", "s", "t", "u", "v", "w", "x", "y", "z">>

DigitSet == {Digits[i] : i \in 1..10}

DigitTable == [c \in DigitSet |-> (CHOOSE i \in 1..10 : Digits[i] = c) - 1]

IsDigit(c) == c \in DigitSet

DigitVal(c) == DigitTable[c]

\* \s of the regular expressions and the characters str.strip() removes
IsSpace(c) == c \in {" ", "\n", "\t"}

UpperSet == {UpperAlpha[i] : i \in 1..26}

LowerTable == [c \in UpperSet |-> LowerAlpha[CHOOSE i \in 1..26 : UpperAlpha[i] = c]]

LowerChar(c) == IF c \in UpperSet THEN LowerTable[c] ELSE c

\* str.lower()
Lower(s) == [i \in 1..Len(s) |-> LowerChar(s[i])]

\* str.lstrip() and str.rstrip()
RECURSIVE LStrip(_)
LStrip(s) == IF Len(s) > 0 /\ IsSpace(s[1]) THEN LStrip(Tail(s)) ELSE s

RECURSIVE RStrip(_)
RStrip(s) == IF Len(s) > 0 /\ IsSpace(s[Len(s)]) THEN RStrip(SubSeq(s, 1, Len(s) - 1)) ELSE s

\* str.strip()
Strip(s) == RStrip(LStrip(s))

\* needle in s
Contains(needle, s) ==
    \E i \in 1..(Len(s) - Len(needle) + 1) :
        \A j \in 1..Len(needle) : s[i + j - 1] = needle[j]

\* s.startswith(p)
StartsWith(s, p) == Len(s) >= Len(p) /\ SubSeq(s, 1, Len(p)) = p

\* the decimal digits of n >= 0, most significant first
RECURSIVE Decimal(_)
Decimal(n) == IF n < 10 THEN <<Digits[n + 1]>>
              ELSE Decimal(n \div 10) \o <<Digits[(n % 10) + 1]>>

\* format(n, "0<w>d"): zero-padded to at least w digits
RECURSIVE ZeroPad(_, _)
ZeroPad(s, w) == IF Len(s) >= w THEN s ELSE ZeroPad(<<"0">> \o s, w)

Fmt02d(n) == ZeroPad(Decimal(n), 2)

Fmt04d(n) == ZeroPad(Decimal(n), 4)

\* int(s) of a string of decimal digits
RECURSIVE IntOf(_)
IntOf(s) == IF Len(s) = 0 THEN 0
            ELSE 10 * IntOf(SubSeq(s, 1, Len(s) - 1)) + DigitVal(s[Len(s)])

AllDigits(s) == \A i \in 1..Len(s) : IsDigit(s[i])

(***************************************************************************)
(* The proleptic Gregorian calendar of datetime: ordinals, weekday(),      *)
(* datetime + timedelta(days), strftime and strptime.                      *)
(***************************************************************************)
IsLeap(y) == (y % 4 = 0) /\ ((y % 100 # 0) \/ (y % 400 = 0))

DaysInMonth(y, m) ==
    IF m = 2 THEN (IF IsLeap(y) THEN 29 ELSE 28)
    ELSE IF m \in {4, 6, 9, 11} THEN 30 ELSE 31

RECURSIVE DaysBeforeMonth(_, _)
DaysBeforeMonth(y, m) ==
    IF m = 1 THEN 0 ELSE DaysBeforeMonth(y, m - 1) + DaysInMonth(y, m - 1)

DaysBeforeYear(y) ==
    LET p == y - 1 IN p * 365 + (p \div 4) - (p \div 100) + (p \div 400)

\* date.toordinal(): 0001-01-01 is day 1
ToOrdinal(dt) == DaysBeforeYear(dt.year) + DaysBeforeMonth(dt.year, dt.month) + dt.day

\* the year and, within it, the month that hold day n / day r of the year
YearOf(n) ==
    CHOOSE y \in ((n \div 366) - 1)..((n \div 365) + 1) :
        DaysBeforeYear(y) < n /\ n <= DaysBeforeYear(y + 1)

MonthOf(y, r) ==
    CHOOSE m \in 1..12 :
        DaysBeforeMonth(y, m) < r /\ r <= DaysBeforeMonth(y, m) + DaysInMonth(y, m)

YmdOf(y, r) ==
    [year |-> y, month |-> MonthOf(y, r), day |-> r - DaysBeforeMonth(y, MonthOf(y, r))]

\* date.fromordinal(n), as [year, month, day]
FromOrdinal(n) == YmdOf(YearOf(n), n - DaysBeforeYear(YearOf(n)))

\* datetime.weekday(): Monday is 0
Weekday(dt) == (ToOrdinal(dt) + 6) % 7

\* datetime.combine(d, time(h, mi))
AtClock(d, h, mi) ==
    [year |-> d.year, month |-> d.month, day |-> d.day, hour |-> h, minute |-> mi]

\* dt + timedelta(days=n): the clock time is kept
AddDays(dt, n) == AtClock(FromOrdinal(ToOrdinal(dt) + n), dt.hour, dt.minute)

\* dt.strftime('%Y-%m-%d')
StrfDate(dt) == Fmt04d(dt.year) \o <<"-">> \o Fmt02d(dt.month) \o <<"-">> \o Fmt02d(dt.day)

\* dt.strftime('%H:%M')
StrfTime(dt) == Fmt02d(dt.hour) \o <<":">> \o Fmt02d(dt.minute)

\* datetime(y, m, d): None stands for ValueError
MakeDate(y, m, d) ==
    IF y >= 1 /\ m \in 1..12 /\ d >= 1 /\ d <= DaysInMonth(y, m)
    THEN Some([year |-> y, month |-> m, day |-> d, hour |-> 0, minute |-> 0])
    ELSE None

\* %d takes two digits, one digit, or a space and a digit
DayDigits(ds) == IF Len(ds) = 2 /\ ds[1] = " " THEN SubSeq(ds, 2, 2) ELSE ds

StrptimeParts(ys, ms, ds) ==
    IF AllDigits(ms) /\ Len(ds) \in {1, 2} /\ AllDigits(DayDigits(ds))
    THEN MakeDate(IntOf(ys), IntOf(ms), IntOf(DayDigits(ds)))
    ELSE None

\* the fields of s when %m takes mlen digits
StrptimeFields(s, mlen) ==
    IF s[6 + mlen] = "-"
    THEN StrptimeParts(SubSeq(s, 1, 4), SubSeq(s, 6, 5 + mlen), SubSeq(s, 7 + mlen, Len(s)))
    ELSE None

\* datetime.strptime(s, '%Y-%m-%d'): None stands for ValueError.  %Y is four
\* digits, %m and %d are one or two digits (a leading zero is optional), the
\* whole string must be consumed and the date must exist in the calendar.
Strptime(s) ==
    IF Len(s) >= 8 /\ Len(s) <= 10 /\ AllDigits(SubSeq(s, 1, 4)) /\ s[5] = "-" /\ IsDigit(s[6])
    THEN StrptimeFields(s, IF s[7] = "-" THEN 1 ELSE 2)
    ELSE None

(***************************************************************************)
(* Pattern Matcher: SmartTimeParser._parse_manual.                         *)
(***************************************************************************)
T_today == <<"t", "o", "d", "a", "y">>

T_tomorrow == <<"t", "o", "m", "o", "r", "r", "o", "w">>

T_yesterday == <<"y", "e", "s", "t", "e", "r", "d", "a", "y">>

T_next_week == <<"n", "e", "x", "t", " ", "w", "e", "e", "k">>

T_this_week == <<"t", "h", "i", "s", " ", "w", "e", "e", "k">>

T_next_ == <<"n", "e", "x", "t", " ">>

\* day_mapping, in the insertion order the loops iterate it in
day_mapping == <<
    [name |-> <<"m", "o", "n", "d", "a", "y">>,                num |-> 0],
    [name |-> <<"m", "o", "n">>,                               num |-> 0],
    [name |-> <<"t", "u", "e", "s", "d", "a", "y">>,           num |-> 1],
    [name |-> <<"t", "u", "e">>,                               num |-> 1],
    [name |-> <<"w", "e", "d", "n", "e", "s", "d", "a", "y">>, num |-> 2],
    [name |-> <<"w", "e", "d">>,                               num |-> 2],
    [name |-> <<"t", "h", "u", "r", "s", "d", "a", "y">>,      num |-> 3],
    [name |-> <<"t", "h", "u">>,                               num |-> 3],
    [name |-> <<"f", "r", "i", "d", "a", "y">>,                num |-> 4],
    [name |-> <<"f", "r", "i">>,                               num |-> 4],
    [name |-> <<"s", "a", "t", "u", "r", "d", "a", "y">>,      num |-> 5],
    [name |-> <<"s", "a", "t">>,                               num |-> 5],
    [name |-> <<"s", "u", "n", "d", "a", "y">>,                num |-> 6],
    [name |-> <<"s", "u", "n">>,                               num |-> 6] >>

\* for day_name, day_num in day_mapping.items(): if day_name in s: the index
\* of the first entry, from entry i on, whose name occurs in s; 0 when the
\* loop ends without one
RECURSIVE FirstDayFrom(_, _)
FirstDayFrom(s, i) ==
    IF i > Len(day_mapping) THEN 0
    ELSE IF Contains(day_mapping[i].name, s) THEN i
    ELSE FirstDayFrom(s, i + 1)

\* the last entry of day_mapping whose name occurs in s taken, not the first
FirstDayIn_LastListed(s) ==
    IF \E i \in 1..Len(day_mapping) : Contains(day_mapping[i].name, s)
    THEN CHOOSE i \in 1..Len(day_mapping) :
             /\ Contains(day_mapping[i].name, s)
             /\ \A j \in (i + 1)..Len(day_mapping) : ~Contains(day_mapping[j].name, s)
    ELSE 0

FirstDayIn(s) == FirstDayFrom(s, 1)

\* the same-day rule left out: a target that is today stays today
SevenIfZero_Kept(days) == days

\* if days == 0: days = 7
SevenIfZero(days) == IF days = 0 THEN 7 ELSE days

\* days_ahead = (day_num - today.weekday()) % 7; 0 becomes 7
DaysAhead(day_num, today) == SevenIfZero((day_num - Weekday(today)) % 7)

\* the Monday rule left out: on a Monday the offset stays 0
DaysUntilMonday_NoWrap(today) == (7 - Weekday(today)) % 7

\* days_until_monday = (7 - today.weekday()) % 7; 0 becomes 7
DaysUntilMonday(today) == SevenIfZero((7 - Weekday(today)) % 7)

\* today + timedelta(days=days_ahead) for entry i of day_mapping
NextOccurrence(i, today) == Some(AddDays(today, DaysAhead(day_mapping[i].num, today)))

\* "next" read as the week after the coming one
NextPrefixedDay_SkipsWeek(day_part, today) ==
    Some(AddDays(today, DaysAhead(day_mapping[FirstDayIn(day_part)].num, today) + 7))

\* Handle "next [day]" pattern: day_part = text_lower[5:] holds a day name
NextPrefixedDay(day_part, today) == NextOccurrence(FirstDayIn(day_part), today)

\* the body of _parse_manual on text_lower = text.lower().strip()
ParseManualLower(text_lower, today) ==
    IF text_lower = T_today THEN Some(today)
    ELSE IF text_lower = T_tomorrow THEN Some(AddDays(today, 1))
    ELSE IF text_lower = T_yesterday THEN Some(AddDays(today, -1))
    ELSE IF text_lower \in {T_next_week, T_this_week}
         THEN Some(AddDays(today, DaysUntilMonday(today)))
    ELSE IF StartsWith(text_lower, T_next_)
            /\ FirstDayIn(SubSeq(text_lower, 6, Len(text_lower))) # 0
         THEN NextPrefixedDay(SubSeq(text_lower, 6, Len(text_lower)), today)
    ELSE IF FirstDayIn(text_lower) # 0
         THEN NextOccurrence(FirstDayIn(text_lower), today)
    ELSE None

\* the text lower-cased but not trimmed
ParseManual_NoStrip(text, today) == ParseManualLower(Lower(text), today)

\* _parse_manual(text) with datetime.now() = today
ParseManual(text, today) == ParseManualLower(Strip(Lower(text)), today)

(***************************************************************************)
(* Time-of-Day Extractor: SmartTimeParser.parse_time.  re.search returns   *)
(* the leftmost match; \d{1,2} is greedy, so at one start position two     *)
(* digits are tried before one.                                            *)
(***************************************************************************)
T_am == <<"a", "m">>

T_pm == <<"p", "m">>

\* the position after the run of \s that starts at j
RECURSIVE SkipSpaces(_, _)
SkipSpaces(s, j) == IF j <= Len(s) /\ IsSpace(s[j]) THEN SkipSpaces(s, j + 1) ELSE j

\* (am|pm) at position j: the meridiem, or None
MeridiemAt(s, j) ==
    IF j + 1 <= Len(s) /\ SubSeq(s, j, j + 1) \in {T_am, T_pm}
    THEN Some(SubSeq(s, j, j + 1)) ELSE None

DigitsAt(s, i, n) == i + n - 1 <= Len(s) /\ \A k \in 0..(n - 1) : IsDigit(s[i + k])

\* (\d{1,2}):(\d{2}) at position i with an hour of hl digits
ColonAt(s, i, hl) ==
    /\ i + hl + 2 <= Len(s)
    /\ DigitsAt(s, i, hl)
    /\ s[i + hl] = ":"
    /\ DigitsAt(s, i + hl + 1, 2)

\* (\d{1,2})\s*(am|pm) at position i with an hour of hl digits
HourMeridiemAt(s, i, hl) ==
    DigitsAt(s, i, hl) /\ IsSome(MeridiemAt(s, SkipSpaces(s, i + hl)))

\* (\d{1,2})(am|pm) at position i with an hour of hl digits
HourMeridiemTightAt(s, i, hl) ==
    DigitsAt(s, i, hl) /\ IsSome(MeridiemAt(s, i + hl))

\* whether pattern number p of time_patterns matches at position i with an
\* hour of hl digits (the fourth pattern has no hour group of its own)
PatternAt(p, s, i, hl) ==
    IF p = 1 THEN ColonAt(s, i, hl)
    ELSE IF p = 2 THEN HourMeridiemAt(s, i, hl)
    ELSE IF p = 3 THEN HourMeridiemTightAt(s, i, hl)
    ELSE DigitsAt(s, i, 4)

\* re.search(time_patterns[p], s): the leftmost position, from i on, where
\* the pattern matches; 0 when it matches nowhere
RECURSIVE Search(_, _, _)
Search(p, s, i) ==
    IF i > Len(s) THEN 0
    ELSE IF IsDigit(s[i]) /\ (PatternAt(p, s, i, 2) \/ PatternAt(p, s, i, 1)) THEN i
    ELSE Search(p, s, i + 1)

\* the hour length the greedy \d{1,2} settles on at a match position
HourLen(p, s, i) == IF PatternAt(p, s, i, 2) THEN 2 ELSE 1

\* the groups of a match of pattern p at position i
GroupsAt(p, s, i, hl) ==
    IF p = 1
    THEN [hour   |-> IntOf(SubSeq(s, i, i + hl - 1)),
          minute |-> IntOf(SubSeq(s, i + hl + 1, i + hl + 2)),
          period |-> MeridiemAt(s, SkipSpaces(s, i + hl + 3))]
    ELSE IF p = 2
    THEN [hour   |-> IntOf(SubSeq(s, i, i + hl - 1)),
          minute |-> 0,
          period |-> MeridiemAt(s, SkipSpaces(s, i + hl))]
    ELSE IF p = 3
    THEN [hour   |-> IntOf(SubSeq(s, i, i + hl - 1)),
          minute |-> 0,
          period |-> MeridiemAt(s, i + hl)]
    ELSE [hour   |-> IntOf(SubSeq(s, i, i + 1)),
          minute |-> IntOf(SubSeq(s, i + 2, i + 3)),
          period |-> None]

\* for pattern in time_patterns: the groups of the first pattern, from
\* pattern p on, that matches anywhere in s; None when none matches
RECURSIVE TimeMatchFrom(_, _)
TimeMatchFrom(p, s) ==
    IF p > 4 THEN None
    ELSE IF Search(p, s, 1) # 0
    THEN Some(GroupsAt(p, s, Search(p, s, 1), HourLen(p, s, Search(p, s, 1))))
    ELSE TimeMatchFrom(p + 1, s)

\* the four-digit pattern tried before the others
TimeMatch_DigitsFirst(s) ==
    IF Search(4, s, 1) # 0
    THEN Some(GroupsAt(4, s, Search(4, s, 1), 2))
    ELSE TimeMatchFrom(1, s)

TimeMatch(s) == TimeMatchFrom(1, s)

\* "pm" adding 12 to every hour, noon included
To24Hour_NoonShifted(hour, period) ==
    IF period = Some(T_pm) THEN hour + 12
    ELSE IF period = Some(T_am) /\ hour = 12 THEN 0
    ELSE hour

\* Convert to 24-hour format
To24Hour(hour, period) ==
    IF period = Some(T_pm) /\ hour # 12 THEN hour + 12
    ELSE IF period = Some(T_am) /\ hour = 12 THEN 0
    ELSE hour

\* f"{hour:02d}:{minute:02d}" of a match, None without one
FormatMatch(match) ==
    IF IsSome(match)
    THEN Some(Fmt02d(To24Hour(Val(match).hour, Val(match).period))
              \o <<":">> \o Fmt02d(Val(match).minute))
    ELSE None

\* parse_time(text): HH:MM, or None
ParseTime(text) == FormatMatch(TimeMatch(Lower(text)))

(***************************************************************************)
(* Component Extraction Facade:                                            *)
(* SmartTimeParser.extract_datetime_components.                            *)
(***************************************************************************)
\* the timezone hint of text.lower()
\* UTC taken when no abbreviation is found
TimezoneOfLower_DefaultUtc(t) ==
    IF Contains(<<"p", "s", "t">>, t) \/ Contains(<<"p", "d", "t">>, t)
    THEN Some("America/Los_Angeles")
    ELSE IF Contains(<<"e", "s", "t">>, t) \/ Contains(<<"e", "d", "t">>, t)
    THEN Some("America/New_York")
    ELSE Some("UTC")

TimezoneOfLower(t) ==
    IF Contains(<<"p", "s", "t">>, t) \/ Contains(<<"p", "d", "t">>, t)
    THEN Some("America/Los_Angeles")
    ELSE IF Contains(<<"e", "s", "t">>, t) \/ Contains(<<"e", "d", "t">>, t)
    THEN Some("America/New_York")
    ELSE IF Contains(<<"u", "t", "c">>, t)
    THEN Some("UTC")
    ELSE None

\* the scan on the text as given, capitals kept
TimezoneOf_CaseSensitive(text) == TimezoneOfLower(text)

\* the timezone hint of the fallback path
TimezoneOf(text) == TimezoneOfLower(Lower(text))

(***************************************************************************)
(* The texts the entry points are called with.                             *)
(***************************************************************************)
T_zzz == <<"z", "z", "z">>

T_Zzz == <<"Z", "z", "z">>

T_monday == <<"m", "o", "n", "d", "a", "y">>

T_Tomorrow_sp == <<" ", "T", "o", "m", "o", "r", "r", "o", "w", " ">>

T_This_Week_sp == <<"T", "h", "i", "s", " ", "W", "e", "e", "k", " ">>

T_tomorrow_3pm_PST == <<"t", "o", "m", "o", "r", "r", "o", "w", " ", "3", "p", "m", " ", "P", "S", "T">>

T_friday_3pm == <<"f", "r", "i", "d", "a", "y", " ", "3", "p", "m">>

T_2pm == <<"2", "p", "m">>

T_2_30pm == <<"2", ":", "3", "0", "p", "m">>

T_14_00 == <<"1", "4", ":", "0", "0">>

T_1400 == <<"1", "4", "0", "0">>

T_12am == <<"1", "2", "a", "m">>

T_TODAY == <<"T", "O", "D", "A", "Y">>

T_Yesterday == <<"Y", "e", "s", "t", "e", "r", "d", "a", "y">>

DateTexts == {T_Tomorrow_sp, T_monday, T_zzz, T_Zzz}

\* every key of day_mapping, alone and after "next ", and the keywords
DayNameTexts == {day_mapping[i].name : i \in 1..Len(day_mapping)}

\* texts that hold a day name among other words
T_Sunday_or_Monday == <<"S", "u", "n", "d", "a", "y", " ", "o", "r", " ", "M", "o", "n", "d", "a", "y">>

T_sunset == <<"s", "u", "n", "s", "e", "t">>

T_Next_WED_sp == <<"N", "e", "x", "t", " ", "W", "E", "D", " ">>

T_wedding_saturday == <<"w", "e", "d", "d", "i", "n", "g", " ", "s", "a", "t", "u", "r", "d", "a", "y">>

T_next_fri_or_thu == <<"n", "e", "x", "t", " ", "f", "r", "i", " ", "o", "r", " ", "t", "h", "u">>

SentenceTexts ==
    {T_Sunday_or_Monday, T_sunset, T_Next_WED_sp, T_wedding_saturday, T_next_fri_or_thu}

PatternTexts ==
    DayNameTexts \cup {T_next_ \o d : d \in DayNameTexts}
        \cup {T_today, T_TODAY, T_tomorrow, T_Tomorrow_sp, T_yesterday, T_Yesterday,
              T_next_week, T_this_week, T_This_Week_sp, T_friday_3pm}
        \cup SentenceTexts

FacadeTexts == {T_tomorrow_3pm_PST, T_friday_3pm, T_zzz}

TimeTexts == {T_2pm, T_2_30pm, T_14_00, T_1400, T_12am, T_zzz, T_tomorrow_3pm_PST}

\* numerals as they are written in a text: plain, and as two digits
Numeral(n) == IF n < 10 THEN <<Digits[n + 1]>> ELSE <<Digits[(n \div 10) + 1], Digits[(n % 10) + 1]>>

TwoDigits(n) == <<Digits[(n \div 10) + 1], Digits[(n % 10) + 1]>>

\* the ways a meridiem is written after the clock time
MeridiemForms ==
    {[text |-> <<"a", "m">>, period |-> "am"],
     [text |-> <<"p", "m">>, period |-> "pm"],
     [text |-> <<" ", "P", "M">>, period |-> "pm"],
     [text |-> <<" ", "A", "m">>, period |-> "am"]}

SampleMinutes == {0, 5, 30, 59}

\* isolated clock expressions, each with the hour, the minute and the
\* meridiem written in it: "h am", "h:MM pm", "HH:MM" and "HHMM"
HourCases ==
    {[text |-> Numeral(h) \o f.text, hour |-> h, minute |-> 0, period |-> f.period] :
        h \in 1..12, f \in MeridiemForms}

ColonMeridiemCases ==
    {[text |-> Numeral(h) \o <<":">> \o TwoDigits(m) \o f.text,
      hour |-> h, minute |-> m, period |-> f.period] :
        h \in 1..12, m \in SampleMinutes, f \in MeridiemForms}

BareColonCases ==
    {[text |-> TwoDigits(h) \o <<":">> \o TwoDigits(m), hour |-> h, minute |-> m,
      period |-> "none"] : h \in 0..23, m \in SampleMinutes}

FourDigitCases ==
    {[text |-> TwoDigits(h) \o TwoDigits(m), hour |-> h, minute |-> m, period |-> "none"] :
        h \in 0..23, m \in SampleMinutes}

ClockCases == HourCases \cup ColonMeridiemCases \cup BareColonCases \cup FourDigitCases

ClockTexts == {c.text : c \in ClockCases}

\* texts with digits that are no clock time
T_9999 == <<"9", "9", "9", "9">>

T_99pm == <<"9", "9", "p", "m">>

T_25_00 == <<"2", "5", ":", "0", "0">>

T_2_75pm == <<"2", ":", "7", "5", "p", "m">>

T_13pm == <<"1", "3", "p", "m">>

OddTimeTexts == {T_9999, T_99pm, T_25_00, T_2_75pm, T_13pm, T_zzz}

\* texts with and without the letters of a timezone abbreviation
T_3pm_pst == <<"3", "p", "m", " ", "p", "s", "t">>

T_PDT == <<"P", "D", "T">>

T_3pm_EST == <<"3", "p", "m", " ", "E", "S", "T">>

T_9_30_edt == <<"9", ":", "3", "0", " ", "e", "d", "t">>

T_UTC == <<"U", "T", "C">>

T_utc_est == <<"u", "t", "c", " ", "e", "s", "t">>

T_est_pst == <<"e", "s", "t", " ", "p", "s", "t">>

T_best == <<"b", "e", "s", "t">>

ZoneTexts ==
    {T_3pm_pst, T_PDT, T_3pm_EST, T_9_30_edt, T_UTC, T_utc_est, T_est_pst, T_best,
     T_tomorrow_3pm_PST, T_zzz}

\* texts in which several time patterns match, at different places
T_3pm_14_30 == <<"3", "p", "m", " ", "1", "4", ":", "3", "0">>

T_1430_or_2pm == <<"1", "4", "3", "0", " ", "o", "r", " ", "2", "p", "m">>

T_0900_7_05 == <<"0", "9", "0", "0", " ", "7", ":", "0", "5">>

T_call_0915 == <<"c", "a", "l", "l", " ", "0", "9", "1", "5">>

T_5_pm_1100 == <<"5", " ", "p", "m", " ", "1", "1", "0", "0">>

PriorityTexts == {T_3pm_14_30, T_1430_or_2pm, T_0900_7_05, T_call_0915, T_5_pm_1100}

AllTexts ==
    DateTexts \cup FacadeTexts \cup TimeTexts \cup PatternTexts \cup ClockTexts
        \cup OddTimeTexts \cup ZoneTexts \cup PriorityTexts

\* the first Reference Instant: Monday 2025-12-29, 09:05
FirstNow == [year |-> 2025, month |-> 12, day |-> 29, hour |-> 9, minute |-> 5]

\* the Reference Instants of the model
Instants == {AddDays(FirstNow, k) : k \in 0..MaxDays}

(***************************************************************************)
(* What the collaborators may do in one call.                              *)
(***************************************************************************)
Midnight(dt) == [dt EXCEPT !.hour = 0, !.minute = 0]

\* Friday 2025-07-04, 14:30
OtherInstant == [year |-> 2025, month |-> 7, day |-> 4, hour |-> 14, minute |-> 30]

\* dateparser.parse raises, returns None, or returns some date-time
LibOutcomes(today) ==
    {[raises |-> TRUE,  value |-> None],
     [raises |-> FALSE, value |-> None],
     [raises |-> FALSE, value |-> Some(Midnight(today))],
     [raises |-> FALSE, value |-> Some(OtherInstant)]}

\* self.llm.invoke raises, or returns some text
ModelOutcomes ==
    {[raises |-> TRUE,  text |-> <<>>],
     [raises |-> FALSE, text |-> <<"2", "0", "2", "5", "-", "0", "7", "-", "2", "1">>],
     [raises |-> FALSE, text |-> <<" ", "2", "0", "2", "6", "-", "1", "-", "5", "\n">>],
     [raises |-> FALSE, text |-> <<"2", "0", "2", "5", "-", "0", "2", "-", "3", "0">>],
     [raises |-> FALSE, text |-> <<"n", "e", "x", "t", " ", "m", "o", "n", "d", "a", "y">>]}

(***************************************************************************)
(* The text-only stages, tabulated once over the texts and instants of the *)
(* model: each table entry is the result of the operator above.            *)
(***************************************************************************)
ParseManualTable == [text \in AllTexts, today \in Instants |-> ParseManual(text, today)]

ParseTimeTable == [text \in AllTexts |-> ParseTime(text)]

TimezoneTable == [text \in AllTexts |-> TimezoneOf(text)]

\* datetime.strptime(response.strip(), '%Y-%m-%d') of each answer of the model
ValidateTable == [r \in {o.text : o \in ModelOutcomes} |-> Strptime(Strip(r))]

(***************************************************************************)
(* The outcome of one resolution: the value returned, the cache after it,  *)
(* the stages consulted, in order, and what the model did when invoked.    *)
(***************************************************************************)
Outcome(value, cache_after, events) ==
    [value |-> value, cache |-> cache_after, events |-> events, answers |-> <<>>,
     raised |-> FALSE]

\* a stage left by an exception: nothing is returned
Raising(cache_after, events) == [Outcome(None, cache_after, events) EXCEPT !.raised = TRUE]

\* except Exception: the exception ends here
Caught(r) == [r EXCEPT !.raised = FALSE]

\* the outcome r of a resolution in which self.llm.invoke did resp
Answered(r, resp) == [r EXCEPT !.answers = <<resp>>]

\* the cache write left out
CachePut_Dropped(c, text, dt) == c

\* the cache replaced by the new entry alone
CachePut_Replacing(c, text, dt) == (text :> dt)

\* self.cache[text] = parsed_date
CachePut(c, text, dt) == (text :> dt) @@ c

(***************************************************************************)
(* Model-Assisted Resolver: SmartTimeParser._parse_with_llm.  resp is what *)
(* self.llm.invoke does in this call: it raises, or returns resp.text.     *)
(***************************************************************************)
\* the entry keyed by the lower-cased text
Validated_LowerKey(text, c, parsed_date) ==
    IF IsSome(parsed_date)
    THEN Outcome(parsed_date, CachePut(c, Lower(text), Val(parsed_date)),
                 <<"cache:miss", "llm:ok">>)
    ELSE Outcome(None, c, <<"cache:miss", "llm:invalid">>)

\* the inner try: a valid date is cached under the raw text and returned,
\* ValueError gives None
Validated(text, c, parsed_date) ==
    IF IsSome(parsed_date)
    THEN Outcome(parsed_date, CachePut(c, text, Val(parsed_date)), <<"cache:miss", "llm:ok">>)
    ELSE Outcome(None, c, <<"cache:miss", "llm:invalid">>)

\* the cache lookup left out: the model is asked every time
ParseWithLlm_NoLookup(text, c, has_llm, resp) ==
    IF ~has_llm
    THEN Outcome(None, c, <<"cache:miss">>)
    ELSE IF resp.raises
    THEN Caught(Answered(Raising(c, <<"cache:miss", "llm:raise">>), resp))
    ELSE Answered(Validated(text, c, ValidateTable[resp.text]), resp)

\* the outer try left out: what self.llm.invoke raises leaves the method
ParseWithLlm_Uncaught(text, c, has_llm, resp) ==
    IF text \in DOMAIN c
    THEN Outcome(Some(c[text]), c, <<"cache:hit">>)
    ELSE IF ~has_llm
    THEN Outcome(None, c, <<"cache:miss">>)
    ELSE IF resp.raises
    THEN Answered(Raising(c, <<"cache:miss", "llm:raise">>), resp)
    ELSE Answered(Validated(text, c, ValidateTable[resp.text]), resp)

\* the cache first, then the model inside try ... except Exception
ParseWithLlm(text, c, has_llm, resp) ==
    IF text \in DOMAIN c
    THEN Outcome(Some(c[text]), c, <<"cache:hit">>)
    ELSE IF ~has_llm
    THEN Outcome(None, c, <<"cache:miss">>)
    ELSE IF resp.raises
    THEN Caught(Answered(Raising(c, <<"cache:miss", "llm:raise">>), resp))
    ELSE Answered(Validated(text, c, ValidateTable[resp.text]), resp)

(***************************************************************************)
(* SmartTimeParser.parse_datetime.  lib is what dateparser.parse does in   *)
(* this call: it raises, or returns lib.value (None or a date-time).       *)
(***************************************************************************)
LibEvent(lib) ==
    IF lib.raises THEN "lib:raise" ELSE IF IsSome(lib.value) THEN "lib:hit" ELSE "lib:miss"

\* the outcome r of a later stage, after the stages of events
After(events, r) == [r EXCEPT !.events = events \o @]

\* the guard "if self.llm" left out
AfterLibrary_Unguarded(text, c, has_llm, resp, lib_event, manual_result) ==
    IF IsSome(manual_result)
    THEN Outcome(manual_result, c, <<lib_event, "manual:hit">>)
    ELSE After(<<lib_event, "manual:miss">>, ParseWithLlm(text, c, has_llm, resp))

\* parse_datetime once the library has given nothing
AfterLibrary(text, c, has_llm, resp, lib_event, manual_result) ==
    IF IsSome(manual_result)
    THEN Outcome(manual_result, c, <<lib_event, "manual:hit">>)
    ELSE IF has_llm
    THEN After(<<lib_event, "manual:miss">>, ParseWithLlm(text, c, has_llm, resp))
    ELSE Outcome(None, c, <<lib_event, "manual:miss">>)

\* the Pattern Matcher consulted before the library
ParseDatetime_PatternFirst(text, today, c, has_llm, lib, resp) ==
    IF IsSome(ParseManualTable[text, today])
    THEN Outcome(ParseManualTable[text, today], c, <<"manual:hit">>)
    ELSE IF ~lib.raises /\ IsSome(lib.value)
    THEN Outcome(lib.value, c, <<"manual:miss", "lib:hit">>)
    ELSE IF has_llm
    THEN After(<<"manual:miss", LibEvent(lib)>>, ParseWithLlm(text, c, has_llm, resp))
    ELSE Outcome(None, c, <<"manual:miss", LibEvent(lib)>>)

\* the library's exception ends the resolution
ParseDatetime_RaiseGivesUp(text, today, c, has_llm, lib, resp) ==
    IF lib.raises
    THEN Outcome(None, c, <<"lib:raise">>)
    ELSE IF IsSome(lib.value)
    THEN Outcome(lib.value, c, <<"lib:hit">>)
    ELSE AfterLibrary(text, c, has_llm, resp, LibEvent(lib), ParseManualTable[text, today])

\* what the library gives written to the cache as well
ParseDatetime_CachesLibrary(text, today, c, has_llm, lib, resp) ==
    IF ~lib.raises /\ IsSome(lib.value)
    THEN Outcome(lib.value, CachePut(c, text, Val(lib.value)), <<"lib:hit">>)
    ELSE AfterLibrary(text, c, has_llm, resp, LibEvent(lib), ParseManualTable[text, today])

\* the library inside try ... except Exception: pass, then the later stages
ParseDatetime(text, today, c, has_llm, lib, resp) ==
    IF ~lib.raises /\ IsSome(lib.value)
    THEN Outcome(lib.value, c, <<"lib:hit">>)
    ELSE AfterLibrary(text, c, has_llm, resp, LibEvent(lib), ParseManualTable[text, today])

\* dt.strftime('%Y-%m-%d') if dt else None
DateOf(dt) ==
    [dt EXCEPT !.value = IF IsSome(@) THEN Some(StrfDate(Val(@))) ELSE None]

\* SmartTimeParser.parse_date: the date-time rendered as YYYY-MM-DD
ParseDate(text, today, c, has_llm, lib, resp) ==
    DateOf(ParseDatetime(text, today, c, has_llm, lib, resp))

(***************************************************************************)
(* SmartTimeParser.extract_datetime_components.  lib1 and resp1 are what   *)
(* the library and the model do in the whole-text parse, lib2 and resp2    *)
(* what they do in the parse_date call of the fallback.                    *)
(***************************************************************************)
Components(date, time, timezone) == [date |-> date, time |-> time, timezone |-> timezone]

\* the fallback: date is the outcome of parse_date(text)
Separately(text, date) ==
    [date EXCEPT !.value = Components(@, ParseTimeTable[text], TimezoneTable[text])]

\* the outcome r of a second resolution, after the resolution first
Then(first, r) ==
    [r EXCEPT !.events = first.events \o @, !.answers = first.answers \o @]

\* the timezone scan run on the whole-text path as well
AfterFullParse_WithHint(text, today, has_llm, lib2, resp2, full_dt) ==
    IF full_dt.raised
    THEN [full_dt EXCEPT !.value = Components(None, None, None)]
    ELSE IF IsSome(full_dt.value)
    THEN [full_dt EXCEPT !.value = Components(Some(StrfDate(Val(@))),
                                              Some(StrfTime(Val(@))),
                                              TimezoneTable[text])]
    ELSE Then(full_dt,
              Separately(text, ParseDate(text, today, full_dt.cache, has_llm, lib2, resp2)))

\* the text up to its first space
RECURSIVE FirstWord(_)
FirstWord(s) ==
    IF Len(s) = 0 \/ s[1] = " " THEN <<>> ELSE <<s[1]>> \o FirstWord(Tail(s))

\* the fallback date taken from the first word of the text alone
AfterFullParse_DateOfFirstWord(text, today, has_llm, lib2, resp2, full_dt) ==
    IF full_dt.raised
    THEN [full_dt EXCEPT !.value = Components(None, None, None)]
    ELSE IF IsSome(full_dt.value)
    THEN [full_dt EXCEPT !.value = Components(Some(StrfDate(Val(@))),
                                              Some(StrfTime(Val(@))),
                                              None)]
    ELSE Then(full_dt,
              Separately(text, DateOf(Outcome(ParseManual(FirstWord(text), today),
                                              full_dt.cache,
                                              <<LibEvent(lib2), "manual:miss">>))))

\* the facade once the whole-text parse has returned full_dt
AfterFullParse(text, today, has_llm, lib2, resp2, full_dt) ==
    IF full_dt.raised
    THEN [full_dt EXCEPT !.value = Components(None, None, None)]
    ELSE IF IsSome(full_dt.value)
    THEN [full_dt EXCEPT !.value = Components(Some(StrfDate(Val(@))),
                                              Some(StrfTime(Val(@))),
                                              None)]
    ELSE Then(full_dt,
              Separately(text, ParseDate(text, today, full_dt.cache, has_llm, lib2, resp2)))

ExtractDatetimeComponents(text, today, c, has_llm, lib1, resp1, lib2, resp2) ==
    AfterFullParse(text, today, has_llm, lib2, resp2,
                   ParseDatetime(text, today, c, has_llm, lib1, resp1))

(***************************************************************************)
(* The tool layer: PlanCastTools (src/agent/tools.py).  It has its own     *)
(* _parse_date and _parse_time and hands their results to the calendar and *)
(* weather backends.                                                       *)
(***************************************************************************)
\* str.split(sep): field is the field being read
RECURSIVE SplitFrom(_, _, _)
SplitFrom(s, sep, field) ==
    IF Len(s) = 0 THEN <<field>>
    ELSE IF s[1] = sep THEN <<field>> \o SplitFrom(Tail(s), sep, <<>>)
    ELSE SplitFrom(Tail(s), sep, Append(field, s[1]))

Split(s, sep) == SplitFrom(s, sep, <<>>)

\* surrounding quotes removed: input_str[1:-1]
Unquoted(s) ==
    IF Len(s) > 0 /\ s[1] = "'" /\ s[Len(s)] = "'" THEN SubSeq(s, 2, Len(s) - 1)
    ELSE IF Len(s) > 0 /\ s[1] = "\"" /\ s[Len(s)] = "\"" THEN SubSeq(s, 2, Len(s) - 1)
    ELSE s

\* the position of the first ")" from j on, 0 when there is none
RECURSIVE CloseFrom(_, _)
CloseFrom(s, j) ==
    IF j > Len(s) THEN 0 ELSE IF s[j] = ")" THEN j ELSE CloseFrom(s, j + 1)

\* where a match of \s*\([^)]*\) that starts at i ends, 0 without a match
ParenEnd(s, i) ==
    IF SkipSpaces(s, i) <= Len(s) /\ s[SkipSpaces(s, i)] = "("
    THEN CloseFrom(s, SkipSpaces(s, i) + 1)
    ELSE 0

\* re.sub(r'\s*\([^)]*\)', '', s), from position i on
RECURSIVE WithoutParens(_, _)
WithoutParens(s, i) ==
    IF i > Len(s) THEN <<>>
    ELSE IF ParenEnd(s, i) > 0 THEN WithoutParens(s, ParenEnd(s, i) + 1)
    ELSE <<s[i]>> \o WithoutParens(s, i + 1)

\* PlanCastTools._clean_input
CleanInput(input_str) ==
    IF Len(input_str) = 0 THEN <<>>
    ELSE Strip(WithoutParens(Unquoted(Strip(input_str)), 1))

T_upcoming == <<"u", "p", "c", "o", "m", "i", "n", "g">>

\* the entry of the weekday branches that lists date_str, 0 when none does;
\* the branches list the names of day_mapping with the same numbers
ToolDayIndex(date_str) ==
    IF \E i \in 1..Len(day_mapping) : day_mapping[i].name = date_str
    THEN CHOOSE i \in 1..Len(day_mapping) : day_mapping[i].name = date_str
    ELSE 0

\* strptime with %m of ml digits and %d of dl characters, then a four-digit
\* year, separated by sep
MdyFields(s, sep, ml, dl) ==
    IF /\ Len(s) = ml + dl + 6
       /\ s[ml + 1] = sep
       /\ s[ml + dl + 2] = sep
       /\ AllDigits(SubSeq(s, ml + dl + 3, Len(s)))
    THEN StrptimeParts(SubSeq(s, ml + dl + 3, Len(s)), SubSeq(s, 1, ml),
                       SubSeq(s, ml + 2, ml + dl + 1))
    ELSE None

\* datetime.strptime(s, '%m<sep>%d<sep>%Y'): None stands for ValueError
StrptimeMdy(s, sep) ==
    IF IsSome(MdyFields(s, sep, 2, 2)) THEN MdyFields(s, sep, 2, 2)
    ELSE IF IsSome(MdyFields(s, sep, 2, 1)) THEN MdyFields(s, sep, 2, 1)
    ELSE IF IsSome(MdyFields(s, sep, 1, 2)) THEN MdyFields(s, sep, 1, 2)
    ELSE MdyFields(s, sep, 1, 1)

\* the else branch of _parse_date: YYYY-MM-DD is returned as written, the
\* two other formats are rewritten
ToolParseDateFormats(date_str) ==
    IF IsSome(Strptime(date_str)) THEN Some(date_str)
    ELSE IF IsSome(StrptimeMdy(date_str, "/")) THEN Some(StrfDate(Val(StrptimeMdy(date_str, "/"))))
    ELSE IF IsSome(StrptimeMdy(date_str, "-")) THEN Some(StrfDate(Val(StrptimeMdy(date_str, "-"))))
    ELSE None

\* _parse_date on the stripped, lower-cased text
ToolParseDateLower(date_str, today) ==
    IF date_str = T_today THEN Some(StrfDate(today))
    ELSE IF date_str = T_tomorrow THEN Some(StrfDate(AddDays(today, 1)))
    ELSE IF date_str = T_yesterday THEN Some(StrfDate(AddDays(today, -1)))
    ELSE IF date_str \in {T_upcoming, T_this_week, T_next_week} THEN None
    ELSE IF ToolDayIndex(date_str) # 0
    THEN Some(StrfDate(AddDays(today, DaysAhead(day_mapping[ToolDayIndex(date_str)].num, today))))
    ELSE ToolParseDateFormats(date_str)

\* PlanCastTools._parse_date
ToolParseDate(date_str, today) ==
    IF Len(date_str) = 0 THEN None ELSE ToolParseDateLower(Lower(Strip(date_str)), today)

\* re.match(r'(\d{1,2})(?::(\d{2}))?(am|pm)', s) with an hour of hl digits
ToolMeridiemMatch(s, hl) ==
    IF ~DigitsAt(s, 1, hl) THEN None
    ELSE IF ColonAt(s, 1, hl) /\ IsSome(MeridiemAt(s, hl + 4))
    THEN Some([hour   |-> IntOf(SubSeq(s, 1, hl)),
               minute |-> IntOf(SubSeq(s, hl + 2, hl + 3)),
               period |-> MeridiemAt(s, hl + 4)])
    ELSE IF IsSome(MeridiemAt(s, hl + 1))
    THEN Some([hour |-> IntOf(SubSeq(s, 1, hl)), minute |-> 0, period |-> MeridiemAt(s, hl + 1)])
    ELSE None

\* re.match(r'(\d{1,2}):(\d{2})', s) with an hour of hl digits
ToolColonMatch(s, hl) ==
    IF ColonAt(s, 1, hl)
    THEN Some([hour   |-> IntOf(SubSeq(s, 1, hl)),
               minute |-> IntOf(SubSeq(s, hl + 2, hl + 3)),
               period |-> None])
    ELSE None

\* the three re.match attempts of _parse_time, in their order
ToolTimeMatch(s) ==
    IF IsSome(ToolMeridiemMatch(s, 2)) THEN ToolMeridiemMatch(s, 2)
    ELSE IF IsSome(ToolMeridiemMatch(s, 1)) THEN ToolMeridiemMatch(s, 1)
    ELSE IF IsSome(ToolColonMatch(s, 2)) THEN ToolColonMatch(s, 2)
    ELSE IF IsSome(ToolColonMatch(s, 1)) THEN ToolColonMatch(s, 1)
    ELSE IF DigitsAt(s, 1, 4)
    THEN Some([hour   |-> IntOf(SubSeq(s, 1, 2)),
               minute |-> IntOf(SubSeq(s, 3, 4)),
               period |-> None])
    ELSE None

\* pm adds 12 except at 12, 12am is 0
ToolTo24Hour(hour, period) ==
    IF period = Some(T_pm) /\ hour # 12 THEN hour + 12
    ELSE IF period = Some(T_am) /\ hour = 12 THEN 0
    ELSE hour

\* f"{hour:02d}:{minute:02d}"
ToolFormat(m) == Fmt02d(ToolTo24Hour(m.hour, m.period)) \o <<":">> \o Fmt02d(m.minute)

\* _parse_time on the stripped, lower-cased text
ToolParseTimeLower(time_str) ==
    IF IsSome(ToolTimeMatch(time_str)) THEN Some(ToolFormat(Val(ToolTimeMatch(time_str))))
    ELSE IF Contains(<<"p", "s", "t">>, time_str) \/ Contains(<<"p", "d", "t">>, time_str)
    THEN Some(time_str)
    ELSE None

\* PlanCastTools._parse_time
ToolParseTime(time_str) ==
    IF Len(time_str) = 0 THEN None ELSE ToolParseTimeLower(Lower(Strip(time_str)))

\* parts[k].strip() if len(parts) > k else None (k counted from 0)
Part(parts, k) == IF Len(parts) > k THEN Some(Strip(parts[k + 1])) ELSE None

\* "if x": the field is given and not empty
Given(field) == IsSome(field) /\ Len(Val(field)) > 0

\* what a tool call gives: the reply (an f-string of the source and the
\* values put into it) and the calls made to the backends
ToolOutcome(template, args, backend_calls) ==
    [template |-> template, args |-> args, calls |-> backend_calls, raised |-> FALSE]

\* a backend call left by an exception
ToolRaising(backend_calls) ==
    [template |-> "", args |-> <<>>, calls |-> backend_calls, raised |-> TRUE]

\* except Exception as e: return f"<message>: {str(e)}"
ToolExcept(r, message) ==
    IF r.raised THEN [r EXCEPT !.raised = FALSE, !.template = message] ELSE r

InvalidDateReply(date) ==
    ToolOutcome("Error: Invalid date format '{date}'. Use 'today', 'tomorrow', or YYYY-MM-DD",
                <<date>>, <<>>)

\* what the backends can do in one call
CalendarOutcomes == {"event", "nothing", "raises"}

AvailabilityOutcomes == {"available", "conflicts", "raises"}

WeatherOutcomes == {"weather", "unavailable", "raises"}

\* self.calendar_service.create_event(...) and the reply built from it
CreateEventCall(call, backend) ==
    IF backend = "raises" THEN ToolRaising(<<call>>)
    ELSE IF backend = "event"
    THEN ToolOutcome("Event created: {event['title']} on {event['start']}", <<>>, <<call>>)
    ELSE ToolOutcome("Failed to create event", <<>>, <<call>>)

\* _create_calendar_event once the fields are split; parsed_date is only
\* looked at when title and date are given
CreateWithFields(title, date, parsed_date, time, location, attendees, backend) ==
    IF Len(title) = 0 \/ ~Given(date)
    THEN ToolOutcome("Error: Title and date are required. Format: 'title|date|time|location|attendees'",
                     <<>>, <<>>)
    ELSE IF ~Given(parsed_date)
    THEN InvalidDateReply(Val(date))
    ELSE CreateEventCall([service   |-> "calendar.create_event",
                          title     |-> title,
                          date      |-> Val(parsed_date),
                          time      |-> IF Given(time) THEN ToolParseTime(Val(time)) ELSE None,
                          location  |-> location,
                          attendees |-> attendees],
                         backend)

\* parts[4].strip().split(',') if len(parts) > 4 and parts[4].strip() else None
Attendees(parts) ==
    IF Given(Part(parts, 4)) THEN Some(Split(Val(Part(parts, 4)), ",")) ELSE None

CreateFromParts(parts, today, backend) ==
    CreateWithFields(Strip(parts[1]), Part(parts, 1),
                     IF Given(Part(parts, 1)) THEN ToolParseDate(Val(Part(parts, 1)), today)
                     ELSE None,
                     Part(parts, 2), Part(parts, 3), Attendees(parts), backend)

\* PlanCastTools._create_calendar_event
CreateCalendarEvent(input_str, today, backend) ==
    ToolExcept(CreateFromParts(Split(CleanInput(input_str), "|"), today, backend),
               "Error creating calendar event: {str(e)}")

\* self.calendar_service.check_availability(parsed_date, time_slot)
AvailabilityCall(date, call, backend) ==
    IF backend = "raises" THEN ToolRaising(<<call>>)
    ELSE IF backend = "available"
    THEN ToolOutcome("{date} is available", <<date>>, <<call>>)
    ELSE ToolOutcome("{date} is not available", <<date>>, <<call>>)

\* if time_slot: parsed_time = self._parse_time(time_slot); if parsed_time: ...
TimeSlot(time_slot) ==
    IF Given(time_slot) /\ Given(ToolParseTime(Val(time_slot)))
    THEN ToolParseTime(Val(time_slot))
    ELSE time_slot

\* the date check left out: the backend is asked whatever the date
AvailabilityWithFields_Unchecked(date, parsed_date, time_slot, backend) ==
    AvailabilityCall(date,
                     [service   |-> "calendar.check_availability",
                      date      |-> parsed_date,
                      time_slot |-> TimeSlot(time_slot)],
                     backend)

AvailabilityWithFields(date, parsed_date, time_slot, backend) ==
    IF ~Given(parsed_date)
    THEN InvalidDateReply(date)
    ELSE AvailabilityCall(date,
                          [service   |-> "calendar.check_availability",
                           date      |-> Val(parsed_date),
                           time_slot |-> TimeSlot(time_slot)],
                          backend)

AvailabilityFromParts(parts, today, backend) ==
    AvailabilityWithFields(Strip(parts[1]), ToolParseDate(Strip(parts[1]), today),
                           Part(parts, 1), backend)

\* PlanCastTools._check_calendar_availability
CheckCalendarAvailability(input_str, today, backend) ==
    ToolExcept(AvailabilityFromParts(Split(CleanInput(input_str), "|"), today, backend),
               "Error checking availability: {str(e)}")

T_New_York == <<"N", "e", "w", " ", "Y", "o", "r", "k">>

\* self.weather_service.check_weather_for_event(parsed_date, location)
WeatherCall(date, location, call, backend) ==
    IF backend = "raises" THEN ToolRaising(<<call>>)
    ELSE IF backend = "weather"
    THEN ToolOutcome("Weather for {date} in {location}: ...", <<date, location>>, <<call>>)
    ELSE ToolOutcome("Weather information unavailable for {date} in {location}",
                     <<date, location>>, <<call>>)

WeatherWithFields(date, parsed_date, location, backend) ==
    IF ~Given(parsed_date)
    THEN InvalidDateReply(date)
    ELSE WeatherCall(date, location,
                     [service  |-> "weather.check_weather_for_event",
                      date     |-> Val(parsed_date),
                      location |-> location],
                     backend)

WeatherFromParts(parts, today, backend) ==
    WeatherWithFields(Strip(parts[1]), ToolParseDate(Strip(parts[1]), today),
                      IF Len(parts) > 1 THEN Strip(parts[2]) ELSE T_New_York, backend)

\* PlanCastTools._check_weather_for_event
CheckWeatherForEvent(input_str, today, backend) ==
    ToolExcept(WeatherFromParts(Split(CleanInput(input_str), "|"), today, backend),
               "Error checking weather for event: {str(e)}")

\* what create_calendar_event is called with: 'title|date|time|location|attendees'
CreateInputs ==
    {<<"S", "y", "n", "c", "|", "t", "o", "d", "a", "y", "|", "3", "p", "m">>,
     <<"S", "y", "n", "c", "|", "t", "o", "d", "a", "y", "|", "n", "o", "o", "n", " ", "p", "s", "t">>,
     <<"S", "y", "n", "c", "|", "t", "o", "d", "a", "y", "|", "9", "9", "p", "m">>,
     <<"S", "y", "n", "c", "|", "z", "z", "z", "|", "3", "p", "m">>,
     <<"|", "z", "z", "z", "|", "3", "p", "m">>,
     <<"S", "y", "n", "c">>,
     <<"S", "y", "n", "c", "|", "|", "3", "p", "m">>,
     <<"'", "S", "y", "n", "c", "|", "T", "o", "m", "o", "r", "r", "o", "w", " ", "(", "t", "e", "n", "t", "a", "t", "i", "v", "e", ")", "|", "2", ":", "3", "0", "p", "m", "|", "R", "o", "o", "m", " ", "1", "'">>,
     <<"S", "y", "n", "c", "|", "2", "0", "2", "6", "-", "0", "1", "-", "0", "5", "|", "1", "4", ":", "0", "0">>,
     <<"S", "y", "n", "c", "|", "0", "1", "/", "0", "5", "/", "2", "0", "2", "6", "|", "1", "4", "0", "0", "|", "H", "Q", "|", "a", "@", "x", ",", "b", "@", "x">>,
     <<"S", "y", "n", "c", "|", "f", "r", "i", "d", "a", "y">>,
     <<"S", "y", "n", "c", "|", "t", "h", "i", "s", " ", "w", "e", "e", "k", "|", "3", "p", "m">>,
     <<"S", "y", "n", "c", "|", "t", "o", "d", "a", "y", "|", "s", "o", "o", "n">>,
     <<"S", "y", "n", "c", "|", "t", "o", "d", "a", "y", "|", "1", "2", "a", "m">>}

\* what check_calendar_availability is called with: 'date|time_slot'
AvailabilityInputs ==
    {<<"t", "o", "m", "o", "r", "r", "o", "w", "|", "2", "p", "m">>,
     <<"z", "z", "z">>,
     <<>>,
     <<"n", "e", "x", "t", " ", "w", "e", "e", "k", "|", "2", "p", "m">>,
     <<"m", "o", "n", "|", "a", "f", "t", "e", "r", " ", "l", "u", "n", "c", "h">>,
     <<"2", "0", "2", "5", "-", "0", "2", "-", "3", "0">>,
     <<"1", "-", "5", "-", "2", "0", "2", "6", "|", "9", ":", "3", "0">>,
     <<"\"", "t", "o", "d", "a", "y", "\"">>}

\* what check_weather_for_event is called with: 'date|location'
WeatherInputs ==
    {<<"t", "o", "m", "o", "r", "r", "o", "w", "|", "P", "a", "r", "i", "s">>,
     <<"z", "z", "z", "|", "P", "a", "r", "i", "s">>,
     <<"t", "o", "m", "o", "r", "r", "o", "w">>,
     <<"u", "p", "c", "o", "m", "i", "n", "g">>,
     <<"s", "u", "n", "d", "a", "y", " ", "(", "m", "a", "y", "b", "e", ")", "|", "O", "s", "l", "o">>}

(***************************************************************************)
(* The state of one SmartTimeParser and of its environment.                *)
(***************************************************************************)
VARIABLES
    llm,         \* self.llm is set: a model backend is configured
    cache,       \* self.cache: raw text -> date-time resolved by the model
    now,         \* the Reference Instant, what datetime.now() returns
    lastOp,      \* the entry point called last
    lastNow,     \* the Reference Instant of that call
    lastText,    \* its argument
    lastResult,  \* what it returned
    trace,       \* the stages it consulted, in order, with their outcomes
    answers,     \* what self.llm.invoke did each time the call invoked it
    reply,       \* what the tool called last replied
    calls,       \* the backend calls that tool call made
    threads      \* two callers that share the parser: where each one stands

vars == <<llm, cache, now, lastOp, lastNow, lastText, lastResult, trace, answers, reply, calls,
          threads>>

\* no caller has started.  serialized: the callers take a lock around each
\* call; pc: idle, invoking (past the cache lookup, inside self.llm.invoke),
\* answered (invoke has returned), done; writes: the cache writes, in order
NoThreads ==
    [serialized |-> FALSE,
     pc         |-> <<"idle", "idle">>,
     text       |-> <<<<>>, <<>>>>,
     resp       |-> <<[raises |-> TRUE, text |-> <<>>], [raises |-> TRUE, text |-> <<>>]>>,
     result     |-> <<None, None>>,
     made       |-> <<0, 0>>,
     writes     |-> <<>>]

NoReply == [template |-> "", args |-> <<>>, raised |-> FALSE]

\* self.cache = {}
EmptyCache == <<>>

\* what a call gave: the fields it returned, or raised if an exception left it
NoResult ==
    [datetime |-> None, date |-> None, time |-> None, timezone |-> None, raised |-> FALSE]

(***************************************************************************)
(* Init: SmartTimeParser.__init__(llm), the cache empty.                   *)
(***************************************************************************)
Init ==
    /\ llm \in BOOLEAN
    /\ cache = EmptyCache
    /\ now = FirstNow
    /\ lastOp = "init"
    /\ lastNow = FirstNow
    /\ lastText = <<>>
    /\ lastResult = NoResult
    /\ trace = <<>>
    /\ answers = <<>>
    /\ reply = NoReply
    /\ calls = <<>>
    /\ threads = NoThreads

(***************************************************************************)
(* Time passes between calls: the Reference Instant moves to the next day. *)
(***************************************************************************)
Tick(days) ==
    /\ ToOrdinal(now) - ToOrdinal(FirstNow) < days
    /\ now' = AddDays(now, 1)
    /\ UNCHANGED <<llm, cache, lastOp, lastNow, lastText, lastResult, trace, answers,
                   reply, calls, threads>>

(***************************************************************************)
(* One call of each entry point: the call returns result, r is its outcome.*)
(***************************************************************************)
Returns(op, text, result, r) ==
    /\ cache' = r.cache
    /\ lastOp' = op
    /\ lastNow' = now
    /\ lastText' = text
    /\ lastResult' = [result EXCEPT !.raised = r.raised]
    /\ trace' = r.events
    /\ answers' = r.answers
    /\ UNCHANGED <<llm, now, reply, calls, threads>>

DateResult(r) == [NoResult EXCEPT !.date = r.value]

CallParseDate(text, lib, resp) ==
    \E r \in {ParseDate(text, now, cache, llm, lib, resp)} :
        Returns("parse_date", text, DateResult(r), r)

\* _parse_manual, called on its own
ManualResult(datetime) == [NoResult EXCEPT !.datetime = datetime]

CallParseManual(text) ==
    Returns("_parse_manual", text, ManualResult(ParseManualTable[text, now]),
            Outcome(None, cache, <<>>))

TimeResult(time) == [NoResult EXCEPT !.time = time]

CallParseTime(text) ==
    Returns("parse_time", text, TimeResult(ParseTimeTable[text]), Outcome(None, cache, <<>>))

ComponentsResult(r) ==
    [NoResult EXCEPT !.date = r.value.date, !.time = r.value.time, !.timezone = r.value.timezone]

CallExtract(text, lib1, resp1, lib2, resp2) ==
    \E r \in {ExtractDatetimeComponents(text, now, cache, llm, lib1, resp1, lib2, resp2)} :
        Returns("extract_datetime_components", text, ComponentsResult(r), r)

\* The model's answer is drawn only in a resolution that invokes the model:
\* whether invoke is reached does not depend on what it would answer.
ModelRaises == [raises |-> TRUE, text |-> <<>>]

EndsInModel(events) == events[Len(events)] = "llm:raise"

ReachesModel(text, c, lib) ==
    EndsInModel(ParseDatetime(text, now, c, llm, lib, ModelRaises).events)

ModelChoices(text, c, lib) ==
    IF ReachesModel(text, c, lib) THEN ModelOutcomes ELSE {ModelRaises}

\* the success of the whole-text parse of the facade decides whether the
\* library and the model are consulted a second time
SecondLibChoices(lib1, full_dt) ==
    IF IsSome(full_dt.value) THEN {lib1} ELSE LibOutcomes(now)

SecondModelChoices(text, resp1, lib2, full_dt) ==
    IF IsSome(full_dt.value) THEN {resp1} ELSE ModelChoices(text, full_dt.cache, lib2)

DoParseDate(texts) ==
    \E text \in texts, lib \in LibOutcomes(now) :
        \E resp \in ModelChoices(text, cache, lib) :
            CallParseDate(text, lib, resp)

DoParseManual(texts) == \E text \in texts : CallParseManual(text)

DoParseTime(texts) == \E text \in texts : CallParseTime(text)

DoExtract(texts) ==
    \E text \in texts, lib1 \in LibOutcomes(now) :
        \E resp1 \in ModelChoices(text, cache, lib1) :
            \E full_dt \in {ParseDatetime(text, now, cache, llm, lib1, resp1)} :
                \E lib2 \in SecondLibChoices(lib1, full_dt) :
                    \E resp2 \in SecondModelChoices(text, resp1, lib2, full_dt) :
                        CallExtract(text, lib1, resp1, lib2, resp2)

(***************************************************************************)
(* One call of a tool of PlanCastTools: r is its outcome.                  *)
(***************************************************************************)
ToolReturns(op, input_str, r) ==
    /\ lastOp' = op
    /\ lastNow' = now
    /\ lastText' = input_str
    /\ lastResult' = NoResult
    /\ trace' = <<>>
    /\ answers' = <<>>
    /\ reply' = [template |-> r.template, args |-> r.args, raised |-> r.raised]
    /\ calls' = r.calls
    /\ UNCHANGED <<llm, cache, now, threads>>

DoCreateCalendarEvent(inputs) ==
    \E input_str \in inputs, backend \in CalendarOutcomes :
        \E r \in {CreateCalendarEvent(input_str, now, backend)} :
            ToolReturns("create_calendar_event", input_str, r)

DoCheckCalendarAvailability(inputs) ==
    \E input_str \in inputs, backend \in AvailabilityOutcomes :
        \E r \in {CheckCalendarAvailability(input_str, now, backend)} :
            ToolReturns("check_calendar_availability", input_str, r)

DoCheckWeatherForEvent(inputs) ==
    \E input_str \in inputs, backend \in WeatherOutcomes :
        \E r \in {CheckWeatherForEvent(input_str, now, backend)} :
            ToolReturns("check_weather_for_event", input_str, r)

(***************************************************************************)
(* All entry points of one parser, called in any order.                    *)
(***************************************************************************)
Next ==
    \/ Tick(CoreDays)
    \/ DoParseDate(DateTexts)
    \/ DoParseTime(TimeTexts)
    \/ DoExtract(FacadeTexts)

Spec == Init /\ [][Next]_vars

(***************************************************************************)
(* The Pattern Matcher on every day name and keyword, on every day of a    *)
(* week: _parse_manual on its own, and parse_date around it.               *)
(***************************************************************************)
NextPatterns ==
    \/ Tick(MaxDays)
    \/ DoParseManual(PatternTexts)
    \/ DoParseDate(PatternTexts)

SpecPatterns == Init /\ [][NextPatterns]_vars

(***************************************************************************)
(* parse_time on clock expressions, and on digits that are no clock time.  *)
(***************************************************************************)
NextTimes == DoParseTime(ClockTexts \cup OddTimeTexts \cup PriorityTexts)

SpecTimes == Init /\ [][NextTimes]_vars

(***************************************************************************)
(* The facade of a parser built without a model, on texts that carry       *)
(* timezone abbreviations.                                                 *)
(***************************************************************************)
InitNoModel == Init /\ ~llm

NextZones ==
    \/ Tick(CoreDays)
    \/ DoExtract(ZoneTexts)

SpecZones == InitNoModel /\ [][NextZones]_vars

(***************************************************************************)
(* The three tools that resolve a date before they call a backend.         *)
(***************************************************************************)
NextTools ==
    \/ Tick(CoreDays)
    \/ DoCreateCalendarEvent(CreateInputs)
    \/ DoCheckCalendarAvailability(AvailabilityInputs)
    \/ DoCheckWeatherForEvent(WeatherInputs)

SpecTools == Init /\ [][NextTools]_vars

(***************************************************************************)
(* Two threads call parse_datetime on one parser.  A call is atomic up to  *)
(* the cache lookup of _parse_with_llm (nothing before it writes), then    *)
(* self.llm.invoke blocks and other threads run, then the answer is        *)
(* validated and written to the cache.                                     *)
(***************************************************************************)
ThreadTexts == {T_zzz, T_Zzz}

Other(t) == 3 - t

\* a caller under the lock starts only when the other one is not in a call
MayStart(th, t) ==
    /\ th.pc[t] \in {"idle", "done"}
    /\ th.made[t] < MaxCalls
    /\ th.serialized => th.pc[Other(t)] \in {"idle", "done"}

\* the call up to the cache lookup: r is parse_datetime with a model that
\* has not answered yet
Started(th, t, text, r) ==
    IF EndsInModel(r.events)
    THEN [th EXCEPT !.pc[t] = "invoking", !.text[t] = text, !.result[t] = None,
                    !.made[t] = @ + 1]
    ELSE [th EXCEPT !.pc[t] = "done", !.text[t] = text, !.result[t] = r.value,
                    !.made[t] = @ + 1]

ThreadCall(t) ==
    /\ MayStart(threads, t)
    /\ \E text \in ThreadTexts, lib \in LibOutcomes(now) :
           threads' = Started(threads, t, text,
                              ParseDatetime(text, now, cache, llm, lib, ModelRaises))
    /\ UNCHANGED <<llm, cache, now, lastOp, lastNow, lastText, lastResult, trace, answers,
                   reply, calls>>

\* response = self.llm.invoke(prompt).strip() returns or raises
ThreadInvoke(t) ==
    /\ threads.pc[t] = "invoking"
    /\ \E resp \in ModelOutcomes :
           threads' = [threads EXCEPT !.pc[t] = "answered", !.resp[t] = resp]
    /\ UNCHANGED <<llm, cache, now, lastOp, lastNow, lastText, lastResult, trace, answers,
                   reply, calls>>

\* the rest of _parse_with_llm on the cache as it is now
Finished(text, c, resp) ==
    IF resp.raises
    THEN Caught(Raising(c, <<"llm:raise">>))
    ELSE Validated(text, c, ValidateTable[resp.text])

Returned(th, t, r) ==
    [th EXCEPT !.pc[t] = "done",
               !.result[t] = r.value,
               !.writes = IF IsSome(r.value)
                          THEN Append(@, [thread |-> t, text |-> th.text[t], date |-> Val(r.value)])
                          ELSE @]

ThreadReturn(t) ==
    /\ threads.pc[t] = "answered"
    /\ \E r \in {Finished(threads.text[t], cache, threads.resp[t])} :
           /\ cache' = r.cache
           /\ threads' = Returned(threads, t, r)
    /\ UNCHANGED <<llm, now, lastOp, lastNow, lastText, lastResult, trace, answers,
                   reply, calls>>

\* a parser with a model, and two callers that either take a lock or do not
InitThreads ==
    /\ llm = TRUE
    /\ cache = EmptyCache
    /\ now = FirstNow
    /\ lastOp = "init"
    /\ lastNow = FirstNow
    /\ lastText = <<>>
    /\ lastResult = NoResult
    /\ trace = <<>>
    /\ answers = <<>>
    /\ reply = NoReply
    /\ calls = <<>>
    /\ threads \in {[NoThreads EXCEPT !.serialized = b] : b \in BOOLEAN}

NextThreads ==
    \/ \E t \in 1..2 : ThreadCall(t)
    \/ \E t \in 1..2 : ThreadInvoke(t)
    \/ \E t \in 1..2 : ThreadReturn(t)

SpecThreads == InitThreads /\ [][NextThreads]_vars

(***************************************************************************)
(* What the properties below speak of: the stages in the trace of a call,  *)
(* and dates counted day by day on the calendar.                           *)
(***************************************************************************)
LibEvents == {"lib:hit", "lib:miss", "lib:raise"}

ManualEvents == {"manual:hit", "manual:miss"}

CacheEvents == {"cache:hit", "cache:miss"}

LlmEvents == {"llm:ok", "llm:invalid", "llm:raise"}

\* the library returned nothing, or raised, for the text of the call
LibraryGaveNothing(events) == Len(events) >= 1 /\ events[1] \in {"lib:miss", "lib:raise"}

\* the call got as far as the Model-Assisted Resolver
ReachedResolver(events) == \E i \in 1..Len(events) : events[i] \in CacheEvents

\* the day after and the day before, read off the calendar
DayAfter(dt) ==
    IF dt.day < DaysInMonth(dt.year, dt.month) THEN [dt EXCEPT !.day = @ + 1]
    ELSE IF dt.month < 12 THEN [dt EXCEPT !.month = @ + 1, !.day = 1]
    ELSE [dt EXCEPT !.year = @ + 1, !.month = 1, !.day = 1]

DayBefore(dt) ==
    IF dt.day > 1 THEN [dt EXCEPT !.day = @ - 1]
    ELSE IF dt.month > 1
    THEN [dt EXCEPT !.month = @ - 1, !.day = DaysInMonth(dt.year, dt.month - 1)]
    ELSE [dt EXCEPT !.year = @ - 1, !.month = 12, !.day = 31]

RECURSIVE DaysAfter(_, _)
DaysAfter(dt, k) == IF k = 0 THEN dt ELSE DaysAfter(DayAfter(dt), k - 1)

\* FirstNow is a Monday; the weekday (Monday 0) of a day counted from it
WeekdayOfInstant(dt) ==
    (CHOOSE k \in 0..(MaxDays + 8) : Midnight(DaysAfter(FirstNow, k)) = Midnight(dt)) % 7

\* the weekday names, Monday first; an abbreviation is the first three letters
WeekdayNames ==
    << <<"m", "o", "n", "d", "a", "y">>,
       <<"t", "u", "e", "s", "d", "a", "y">>,
       <<"w", "e", "d", "n", "e", "s", "d", "a", "y">>,
       <<"t", "h", "u", "r", "s", "d", "a", "y">>,
       <<"f", "r", "i", "d", "a", "y">>,
       <<"s", "a", "t", "u", "r", "d", "a", "y">>,
       <<"s", "u", "n", "d", "a", "y">> >>

IsNameOf(d, n) == d = WeekdayNames[n + 1] \/ d = SubSeq(WeekdayNames[n + 1], 1, 3)

IsWeekdayName(d) == \E n \in 0..6 : IsNameOf(d, n)

\* result is the text YYYY-MM-DD of the date of dt
ShowsDate(result, dt) ==
    /\ IsSome(result)
    /\ Len(Val(result)) = 10
    /\ Strptime(Val(result)) = Some(Midnight(dt))

(***************************************************************************)
(* C1: the order in which a date resolution consults its stages.           *)
(***************************************************************************)
\* C1 as stated: parse_date consults the Pattern Matcher first, the library
\* only after the Pattern Matcher reported no match, and the Model-Assisted
\* Resolver only after both reported no match.
C1_PatternMatcherFirst ==
    lastOp = "parse_date" =>
        /\ trace[1] \in ManualEvents
        /\ \A i \in 1..Len(trace) :
               /\ trace[i] \in LibEvents => i = 2 /\ trace[1] = "manual:miss"
               /\ trace[i] \in CacheEvents \cup LlmEvents =>
                      /\ i >= 3
                      /\ trace[1] = "manual:miss"
                      /\ trace[2] \in {"lib:miss", "lib:raise"}

\* C1 (amended): parse_date consults the library parser first, the Pattern
\* Matcher only after the library returned nothing or raised, and the
\* Model-Assisted Resolver only after both gave nothing and with a model
\* configured.
C1_LibraryFirst ==
    lastOp = "parse_date" =>
        /\ trace[1] \in LibEvents
        /\ \A i \in 1..Len(trace) :
               /\ trace[i] \in LibEvents => i = 1
               /\ trace[i] \in ManualEvents => i = 2 /\ LibraryGaveNothing(trace)
               /\ trace[i] \in CacheEvents \cup LlmEvents =>
                      /\ i >= 3
                      /\ llm
                      /\ LibraryGaveNothing(trace)
                      /\ trace[2] = "manual:miss"

\* a parse_date call that went through all three stages
C1_AllStagesConsulted ==
    /\ lastOp = "parse_date"
    /\ trace = <<"lib:miss", "manual:miss", "cache:miss", "llm:ok">>
    /\ IsSome(lastResult.date)

(***************************************************************************)
(* C2: a weekday name on its own weekday.                                  *)
(***************************************************************************)
\* C2 as stated: for every weekday name d and every Reference Instant whose
\* weekday is d, parse_date(d) returns the date 7 days after the Reference
\* Instant, never the Reference Instant's own date.
C2_SameWeekdaySevenDaysAhead ==
    \A n \in 0..6 :
        (lastOp = "parse_date" /\ IsNameOf(lastText, n) /\ WeekdayOfInstant(lastNow) = n)
            => /\ ShowsDate(lastResult.date, DaysAfter(lastNow, 7))
               /\ ~ShowsDate(lastResult.date, lastNow)

\* C2 (amended): for every weekday name d and every Reference Instant whose
\* weekday is d, parse_date(d) returns the date 7 days after the Reference
\* Instant, never its own date, whenever the library parser gives nothing
\* for d.
C2_SameWeekdaySevenDaysAheadAfterLibrary ==
    \A n \in 0..6 :
        (/\ lastOp = "parse_date"
         /\ IsNameOf(lastText, n)
         /\ WeekdayOfInstant(lastNow) = n
         /\ LibraryGaveNothing(trace))
            => /\ ShowsDate(lastResult.date, DaysAfter(lastNow, 7))
               /\ ~ShowsDate(lastResult.date, lastNow)

\* parse_date("sun") on a Sunday, the library silent
C2_SunOnSunday ==
    /\ lastOp = "parse_date"
    /\ lastText = <<"s", "u", "n">>
    /\ WeekdayOfInstant(lastNow) = 6
    /\ trace = <<"lib:miss", "manual:hit">>
    /\ ShowsDate(lastResult.date, DaysAfter(lastNow, 7))

(***************************************************************************)
(* C3: today, tomorrow, yesterday.                                         *)
(***************************************************************************)
TodayTexts == {T_today, T_TODAY}

TomorrowTexts == {T_tomorrow, T_Tomorrow_sp}

YesterdayTexts == {T_yesterday, T_Yesterday}

NextAfterPlain ==
    /\ lastOp = "parse_date"
    /\ lastOp' = "parse_date"
    /\ now' = now
    /\ lastNow' = lastNow
    /\ IsWeekdayName(lastText)
    /\ lastText' = T_next_ \o lastText

\* C4 as stated: for every weekday name d and every Reference Instant,
\* parse_date("next " + d) equals parse_date(d).
C4_NextPrefixChangesNothing ==
    [][NextAfterPlain => lastResult'.date = lastResult.date]_vars

\* C4 (amended): for every weekday name d and every Reference Instant,
\* parse_date("next " + d) equals parse_date(d), a date at most 7 days
\* ahead, whenever the library parser gives nothing for either text.
C4_NextPrefixChangesNothingAfterLibrary ==
    [][(NextAfterPlain /\ LibraryGaveNothing(trace) /\ LibraryGaveNothing(trace'))
          => /\ lastResult'.date = lastResult.date
             /\ \E k \in 1..7 : ShowsDate(lastResult'.date, DaysAfter(lastNow, k))]_vars

\* parse_date("next wed") on a Wednesday, the library silent: one week ahead
C4_NextWedOnWednesday ==
    /\ lastOp = "parse_date"
    /\ lastText = <<"n", "e", "x", "t", " ", "w", "e", "d">>
    /\ WeekdayOfInstant(lastNow) = 2
    /\ trace = <<"lib:miss", "manual:hit">>
    /\ ShowsDate(lastResult.date, DaysAfter(lastNow, 7))

(***************************************************************************)
(* C5: next week, this week.                                               *)
(***************************************************************************)
WeekTexts == {T_next_week, T_this_week, T_This_Week_sp}

\* C5: for "next week" and "this week", in any case and with spaces around,
\* the Pattern Matcher returns the Monday strictly after the Reference
\* Instant: 1 to 7 days ahead, a Monday, and 7 days ahead on a Monday.
C5_WeekIsTheMondayAfter ==
    (lastOp = "_parse_manual" /\ lastText \in WeekTexts) =>
        /\ IsSome(lastResult.datetime)
        /\ \E k \in 1..7 :
               /\ Val(lastResult.datetime) = DaysAfter(lastNow, k)
               /\ WeekdayOfInstant(lastNow) = 0 => k = 7
        /\ WeekdayOfInstant(Val(lastResult.datetime)) = 0

\* _parse_manual("This Week ") on a Monday
C5_ThisWeekOnMonday ==
    /\ lastOp = "_parse_manual"
    /\ lastText = T_This_Week_sp
    /\ WeekdayOfInstant(lastNow) = 0
    /\ lastResult.datetime = Some(DaysAfter(lastNow, 7))

(***************************************************************************)
(* C6: when the model is invoked.                                          *)
(***************************************************************************)
\* the invocations of the model in a trace
Invocations(events) == {i \in 1..Len(events) : events[i] \in LlmEvents}

\* C6: the model is invoked in a resolution only after the library and the
\* Pattern Matcher both gave nothing in that resolution and with a model
\* configured; with no model configured a resolution that finds nothing
\* returns absent, invokes nothing and neither reads nor writes the cache.
C6_ModelOnlyAsLastResort ==
    /\ Len(answers) = Cardinality(Invocations(trace))
    /\ \A i \in Invocations(trace) :
           /\ llm
           /\ i >= 4
           /\ trace[i - 3] \in {"lib:miss", "lib:raise"}
           /\ trace[i - 2] = "manual:miss"
           /\ trace[i - 1] = "cache:miss"
    /\ ~llm =>
           /\ answers = <<>>
           /\ \A i \in 1..Len(trace) : trace[i] \notin CacheEvents \cup LlmEvents
           /\ cache = EmptyCache
           /\ (lastOp = "parse_date" /\ trace \in {<<"lib:miss", "manual:miss">>,
                                                   <<"lib:raise", "manual:miss">>})
                  => lastResult.date = None

\* a parse_date call that invoked the model, which raised
C6_ModelInvokedLast ==
    /\ lastOp = "parse_date"
    /\ llm
    /\ trace = <<"lib:raise", "manual:miss", "cache:miss", "llm:raise">>
    /\ Len(answers) = 1

(***************************************************************************)
(* C7: a cache hit.                                                        *)
(***************************************************************************)
\* C7: a call that reaches the Model-Assisted Resolver with a text that is
\* a key of the cache returns the cached date, invokes no model and leaves
\* the cache as it is, whatever the Reference Instant.
C7_CacheHitSkipsModel ==
    [][(/\ lastOp' \in {"parse_date", "extract_datetime_components"}
        /\ now' = now
        /\ lastText' \in DOMAIN cache
        /\ ReachedResolver(trace'))
          => /\ ShowsDate(lastResult'.date, cache[lastText'])
             /\ answers' = <<>>
             /\ cache' = cache]_vars

\* a cache hit on a later day, with the other spelling cached as well
C7_HitOnLaterDay ==
    /\ lastOp = "parse_date"
    /\ lastText = T_zzz
    /\ lastNow # FirstNow
    /\ trace = <<"lib:miss", "manual:miss", "cache:hit">>
    /\ DOMAIN cache = {T_zzz, T_Zzz}
    /\ cache[T_zzz] # cache[T_Zzz]
    /\ ShowsDate(lastResult.date, cache[T_zzz])

(***************************************************************************)
(* C8: two calls in a row with one text.                                   *)
(***************************************************************************)
\* two parse_date calls in a row with one text, both reaching the
\* Model-Assisted Resolver
ResolvedTwice ==
    /\ lastOp = "parse_date"
    /\ lastOp' = "parse_date"
    /\ now' = now
    /\ lastText' = lastText
    /\ ReachedResolver(trace)
    /\ ReachedResolver(trace')

\* C8 as stated: two successive model-assisted parse_date calls with one
\* text return the same date, whatever the Reference Instant and whatever
\* the model answers the second time.
C8_SuccessiveCallsAgree ==
    [][ResolvedTwice => lastResult'.date = lastResult.date]_vars

\* C8 (amended): two successive model-assisted parse_date calls with one
\* text, the first of which returned a date, return the same date, whatever
\* the Reference Instant and whatever the model answers the second time.
C8_SuccessiveCallsAgreeOnceResolved ==
    [][(ResolvedTwice /\ IsSome(lastResult.date))
          => /\ lastResult'.date = lastResult.date
             /\ answers' = <<>>]_vars

\* the second of two resolutions of "Zzz", on a later day
C8_SecondCallOnLaterDay ==
    /\ lastOp = "parse_date"
    /\ lastText = T_Zzz
    /\ lastNow = DayAfter(FirstNow)
    /\ trace = <<"lib:raise", "manual:miss", "cache:hit">>
    /\ ShowsDate(lastResult.date, cache[T_Zzz])

(***************************************************************************)
(* C9: what the model's answer does to the cache.                          *)
(***************************************************************************)
\* s is a date written YYYY-MM-DD
IsIsoDate(s) ==
    /\ Len(s) = 10
    /\ \A i \in {1, 2, 3, 4, 6, 7, 9, 10} : IsDigit(s[i])
    /\ s[5] = "-"
    /\ s[8] = "-"
    /\ IntOf(SubSeq(s, 1, 4)) >= 1
    /\ IntOf(SubSeq(s, 6, 7)) \in 1..12
    /\ IntOf(SubSeq(s, 9, 10)) \in 1..DaysInMonth(IntOf(SubSeq(s, 1, 4)), IntOf(SubSeq(s, 6, 7)))

SecondDash(s) == IF s[7] = "-" THEN 7 ELSE 8

MonthText(s) == SubSeq(s, 6, SecondDash(s) - 1)

DayText(s) ==
    IF Len(s) = SecondDash(s) + 2 /\ s[SecondDash(s) + 1] = " "
    THEN SubSeq(s, Len(s), Len(s))
    ELSE SubSeq(s, SecondDash(s) + 1, Len(s))

\* s is a date written as a four-digit year, a month and a day of one or two
\* digits (the day also as a space and a digit), with "-" between them
IsDateText(s) ==
    /\ Len(s) \in 8..10
    /\ AllDigits(SubSeq(s, 1, 4))
    /\ s[5] = "-"
    /\ s[SecondDash(s)] = "-"
    /\ Len(MonthText(s)) \in {1, 2}
    /\ AllDigits(MonthText(s))
    /\ Len(DayText(s)) \in {1, 2}
    /\ AllDigits(DayText(s))
    /\ IntOf(SubSeq(s, 1, 4)) >= 1
    /\ IntOf(MonthText(s)) \in 1..12
    /\ IntOf(DayText(s)) \in 1..DaysInMonth(IntOf(SubSeq(s, 1, 4)), IntOf(MonthText(s)))

DateNamedBy(s) ==
    [year |-> IntOf(SubSeq(s, 1, 4)), month |-> IntOf(MonthText(s)),
     day |-> IntOf(DayText(s)), hour |-> 0, minute |-> 0]

\* a parse_date call: an answer of the model that is not ok gives absent and
\* leaves the cache; the cache changes only by an entry for the raw text of
\* the call, holding the date of an answer that is ok
AnswerHandled(ok) ==
    (lastOp' = "parse_date" /\ now' = now) =>
        /\ (Len(answers') = 1 /\ ~ok) => (lastResult'.date = None /\ cache' = cache)
        /\ cache' # cache =>
               /\ Len(answers') = 1
               /\ ok
               /\ cache' = (lastText' :> DateNamedBy(Strip(answers'[1].text))) @@ cache
               /\ ShowsDate(lastResult'.date, cache'[lastText'])

\* C9 as stated: when the model raises or its trimmed answer is not a date
\* written YYYY-MM-DD, the call returns absent and leaves the cache; an
\* entry is written only for an answer that is one, under the raw text.
C9_OnlyIsoAnswersCached ==
    [][AnswerHandled(~answers'[1].raises /\ IsIsoDate(Strip(answers'[1].text)))]_vars

\* C9 (amended): when the model raises or its trimmed answer is not a date
\* written as a four-digit year and a month and a day of one or two digits,
\* the call returns absent and leaves the cache; an entry is written only
\* for an answer that is one, under the raw text.
C9_OnlyDateAnswersCached ==
    [][AnswerHandled(~answers'[1].raises /\ IsDateText(Strip(answers'[1].text)))]_vars

\* an answer naming 30 February: absent, and nothing cached for "Zzz"
C9_ImpossibleDateRejected ==
    /\ lastOp = "parse_date"
    /\ lastText = T_Zzz
    /\ Len(answers) = 1
    /\ ~answers[1].raises
    /\ answers[1].text = <<"2", "0", "2", "5", "-", "0", "2", "-", "3", "0">>
    /\ lastResult.date = None
    /\ T_Zzz \notin DOMAIN cache
    /\ T_zzz \in DOMAIN cache

(***************************************************************************)
(* C10: no retries.                                                        *)
(***************************************************************************)
\* C10: one call of an entry point invokes the model at most once.
C10_AtMostOneModelCall == Len(answers) <= 1

(***************************************************************************)
(* C11: the entries of the cache stay.                                     *)
(***************************************************************************)
\* C11: once the cache maps a raw text to a date, it maps that text to the
\* same date after every later step: no entry is removed or overwritten.
C11_CacheEntriesStay ==
    [][\A text \in DOMAIN cache : text \in DOMAIN cache' /\ cache'[text] = cache[text]]_vars

\* three entries, the last call a hit on one of them on a later day
C11_EntriesKeptAcrossCalls ==
    /\ DOMAIN cache = {T_zzz, T_Zzz, T_tomorrow_3pm_PST}
    /\ cache[T_zzz] # cache[T_tomorrow_3pm_PST]
    /\ lastNow # FirstNow
    /\ lastOp = "parse_date"
    /\ trace = <<"lib:miss", "manual:miss", "cache:hit">>

(***************************************************************************)
(* C12: the meridiem rule and the zero padding of parse_time.              *)
(***************************************************************************)
\* the hour on the 24-hour clock of hour h written with a meridiem
HourOfDay(h, period) ==
    IF period = "pm" THEN (IF h = 12 THEN 12 ELSE h + 12)
    ELSE IF period = "am" THEN (IF h = 12 THEN 0 ELSE h)
    ELSE h

\* C12: parse_time of an isolated clock expression is HH:MM, zero-padded:
\* for h in 1..12 "pm" gives h + 12 unless h = 12, "am" gives 0 for h = 12
\* and h otherwise, the minutes default to 00, and HH:MM and HHMM are
\* returned as HH:MM ("2pm" 14:00, "2:30pm" 14:30, "14:00" and "1400" 14:00).
C12_MeridiemRuleAndPadding ==
    lastOp = "parse_time" =>
        /\ \A c \in ClockCases :
               lastText = c.text =>
                   lastResult.time = Some(TwoDigits(HourOfDay(c.hour, c.period))
                                          \o <<":">> \o TwoDigits(c.minute))
        /\ lastText = T_2pm => lastResult.time = Some(<<"1", "4", ":", "0", "0">>)
        /\ lastText = T_2_30pm => lastResult.time = Some(<<"1", "4", ":", "3", "0">>)
        /\ lastText = T_14_00 => lastResult.time = Some(<<"1", "4", ":", "0", "0">>)
        /\ lastText = T_1400 => lastResult.time = Some(<<"1", "4", ":", "0", "0">>)

\* parse_time("12:05 PM"): noon stays 12
C12_NoonStaysTwelve ==
    /\ lastOp = "parse_time"
    /\ lastText = <<"1", "2", ":", "0", "5", " ", "P", "M">>
    /\ lastResult.time = Some(<<"1", "2", ":", "0", "5">>)

(***************************************************************************)
(* C13: the range of the results of parse_time.                            *)
(***************************************************************************)
\* C13: a result of parse_time that is not absent is HH:MM with the hour in
\* 00..23 and the minute in 00..59.
C13_TimeIsOnTheClock ==
    (lastOp = "parse_time" /\ IsSome(lastResult.time)) =>
        \E h \in 0..23, m \in 0..59 :
            Val(lastResult.time) = TwoDigits(h) \o <<":">> \o TwoDigits(m)

(***************************************************************************)
(* C14: the facade on "tomorrow 3pm PST".                                  *)
(***************************************************************************)
\* C14: with no model configured, extract_datetime_components of
\* "tomorrow 3pm PST" returns the date of the day after the Reference
\* Instant, the time 15:00 and the timezone America/Los_Angeles, whatever
\* the library does.
C14_TomorrowThreePmPst ==
    (lastOp = "extract_datetime_components" /\ lastText = T_tomorrow_3pm_PST /\ ~llm) =>
        /\ ShowsDate(lastResult.date, DayAfter(lastNow))
        /\ lastResult.time = Some(<<"1", "5", ":", "0", "0">>)
        /\ lastResult.timezone = Some("America/Los_Angeles")

(***************************************************************************)
(* C15: the facade when the whole-text parse succeeds.                     *)
(***************************************************************************)
\* the facade ran one resolution only, and it gave a date-time
WholeTextParsed ==
    /\ lastOp = "extract_datetime_components"
    /\ Cardinality({i \in 1..Len(trace) : trace[i] \in LibEvents}) = 1
    /\ trace[Len(trace)] \in {"lib:hit", "manual:hit", "cache:hit", "llm:ok"}

\* the date-times that resolution can have given
WholeTextCandidates ==
    IF trace[Len(trace)] = "lib:hit"
    THEN {Val(o.value) : o \in {l \in LibOutcomes(lastNow) : IsSome(l.value)}}
    ELSE IF trace[Len(trace)] = "manual:hit"
    THEN {dt \in {DaysAfter(lastNow, k) : k \in 1..7} :
              lastText = T_friday_3pm /\ WeekdayOfInstant(dt) = 4}
    ELSE {cache[lastText]}

\* C15: when the whole-text parse of the facade gives a date-time, the date
\* and the time returned are that one date-time as YYYY-MM-DD and HH:MM and
\* the timezone is absent: neither the timezone scan nor parse_time is used.
C15_WholeTextParseDecides ==
    WholeTextParsed =>
        /\ lastResult.timezone = None
        /\ \E dt \in WholeTextCandidates :
               /\ ShowsDate(lastResult.date, dt)
               /\ lastResult.time = Some(TwoDigits(dt.hour) \o <<":">> \o TwoDigits(dt.minute))

\* "tomorrow 3pm PST" answered by the library: its clock time, no timezone
C15_LibraryAnswersWholeText ==
    /\ lastOp = "extract_datetime_components"
    /\ lastText = T_tomorrow_3pm_PST
    /\ trace = <<"lib:hit">>
    /\ lastResult.date = Some(<<"2", "0", "2", "5", "-", "0", "7", "-", "0", "4">>)
    /\ lastResult.time = Some(<<"1", "4", ":", "3", "0">>)
    /\ lastResult.timezone = None

(***************************************************************************)
(* C16: the timezone hint of the fallback path.                            *)
(***************************************************************************)
\* the zone and the time of day each text stands for, read off the text
ZoneCases ==
    {[text |-> T_3pm_pst,          zone |-> Some("America/Los_Angeles"), time |-> Some(<<"1", "5", ":", "0", "0">>)],
     [text |-> T_PDT,              zone |-> Some("America/Los_Angeles"), time |-> None],
     [text |-> T_3pm_EST,          zone |-> Some("America/New_York"),    time |-> Some(<<"1", "5", ":", "0", "0">>)],
     [text |-> T_9_30_edt,         zone |-> Some("America/New_York"),    time |-> Some(<<"0", "9", ":", "3", "0">>)],
     [text |-> T_UTC,              zone |-> Some("UTC"),                 time |-> None],
     [text |-> T_utc_est,          zone |-> Some("America/New_York"),    time |-> None],
     [text |-> T_est_pst,          zone |-> Some("America/Los_Angeles"), time |-> None],
     [text |-> T_best,             zone |-> Some("America/New_York"),    time |-> None],
     [text |-> T_tomorrow_3pm_PST, zone |-> Some("America/Los_Angeles"), time |-> Some(<<"1", "5", ":", "0", "0">>)],
     [text |-> T_zzz,              zone |-> None,                        time |-> None]}

\* the facade went on to its fallback path: the whole-text parse gave nothing
FellBack ==
    /\ lastOp = "extract_datetime_components"
    /\ Cardinality({i \in 1..Len(trace) : trace[i] \in LibEvents}) = 2

\* the date of the fallback path is the one its second resolution gave
FallbackDateKept ==
    IF trace[Len(trace)] \in {"lib:hit", "manual:hit", "cache:hit", "llm:ok"}
    THEN \E dt \in WholeTextCandidates : ShowsDate(lastResult.date, dt)
    ELSE lastResult.date = None

\* C16: on the fallback path the timezone is found by a case-insensitive
\* substring scan with the priority pst/pdt (America/Los_Angeles), then
\* est/edt (America/New_York), then utc (UTC), else absent; it is always one
\* of these four values, and the date and the time are what they are
\* without the scan.
C16_TimezoneHint ==
    FellBack =>
        /\ lastResult.timezone \in
               {None, Some("America/Los_Angeles"), Some("America/New_York"), Some("UTC")}
        /\ \A c \in ZoneCases : lastText = c.text =>
               /\ lastResult.timezone = c.zone
               /\ lastResult.time = c.time
        /\ FallbackDateKept

\* "utc est" names two zones: est wins, and the library's date is kept
C16_EstBeforeUtc ==
    /\ FellBack
    /\ lastText = T_utc_est
    /\ lastResult.timezone = Some("America/New_York")
    /\ IsSome(lastResult.date)

(***************************************************************************)
(* C17: the entry points never raise.                                      *)
(***************************************************************************)
\* C17: parse_date, parse_time and extract_datetime_components are total:
\* whatever the library and the model do in a call (return a value, return
\* garbage, raise), the call returns and no exception leaves it.
C17_EntryPointsNeverRaise ==
    lastOp \in {"parse_date", "parse_time", "extract_datetime_components"} =>
        ~lastResult.raised

\* one facade call in which the library raised, the model answered garbage
\* and then raised
C17_RaisesAndGarbageSurvived ==
    /\ lastOp = "extract_datetime_components"
    /\ lastText = T_zzz
    /\ trace = <<"lib:raise", "manual:miss", "cache:miss", "llm:invalid",
                 "lib:miss", "manual:miss", "cache:miss", "llm:raise">>
    /\ ~lastResult.raised
    /\ lastResult.date = None

(***************************************************************************)
(* C18: a text nothing recognises, no model configured.                    *)
(***************************************************************************)
\* C18: for "zzz", which no date pattern, no time pattern and no timezone
\* abbreviation matches, when the library does not recognise it and no
\* model is configured: parse_date gives absent, parse_time gives absent,
\* and extract_datetime_components gives date, time and timezone all absent.
C18_NothingRecognised ==
    (~llm /\ lastText \in {T_zzz, T_Zzz} /\ \A i \in 1..Len(trace) : trace[i] # "lib:hit") =>
        /\ lastOp = "parse_date" => lastResult.date = None
        /\ lastOp = "parse_time" => lastResult.time = None
        /\ lastOp = "extract_datetime_components" =>
               /\ lastResult.date = None
               /\ lastResult.time = None
               /\ lastResult.timezone = None

\* the facade on "zzz" with no model: the library gave nothing, twice
C18_FacadeOnZzz ==
    /\ ~llm
    /\ lastOp = "extract_datetime_components"
    /\ lastText = T_zzz
    /\ trace = <<"lib:miss", "manual:miss", "lib:miss", "manual:miss">>
    /\ lastResult.timezone = None

LibraryAbsent == [raises |-> FALSE, value |-> None]

\* what the model did in the call just made, if it was invoked
ModelDid(given) == IF given = <<>> THEN ModelRaises ELSE given[1]

\* C20: when the library raises in a resolution, the exception goes no
\* further, the Pattern Matcher and the later stages are tried, and the
\* value returned and the cache left behind are those of the same call with
\* the library returning absent.
C20_RaiseCountsAsAbsent ==
    [][(now' = now /\ lastOp' = "parse_date" /\ trace'[1] = "lib:raise") =>
           \E r \in {ParseDate(lastText', now, cache, llm, LibraryAbsent, ModelDid(answers'))} :
               /\ ~lastResult'.raised
               /\ Len(trace') >= 2 /\ trace'[2] \in ManualEvents
               /\ lastResult'.date = r.value
               /\ cache' = r.cache
               /\ Tail(trace') = Tail(r.events)]_vars

\* the library raised on "monday" and the Pattern Matcher resolved it
C20_PatternAfterRaise ==
    /\ lastOp = "parse_date"
    /\ lastText = T_monday
    /\ trace = <<"lib:raise", "manual:hit">>
    /\ IsSome(lastResult.date)

(***************************************************************************)
(* C21: the times handed to the calendar backend.                          *)
(***************************************************************************)
\* two digits, a colon, two digits
IsClockForm(t) ==
    Len(t) = 5 /\ IsDigit(t[1]) /\ IsDigit(t[2]) /\ t[3] = ":" /\ IsDigit(t[4]) /\ IsDigit(t[5])

\* C21: every time that create_calendar_event hands to the calendar
\* backend's create_event is absent or a string of the form HH:MM.
C21_OnlyClockTimesReachBackend ==
    \A i \in 1..Len(calls) :
        calls[i].service = "calendar.create_event" =>
            calls[i].time = None \/ IsClockForm(Val(calls[i].time))

(***************************************************************************)
(* C22: a date field that resolves to no date.                             *)
(***************************************************************************)
\* requests whose date field names no date; incomplete: the title or the
\* date field of a create_calendar_event request is empty or missing
UnresolvedRequests ==
    {[op |-> "create_calendar_event", text |-> <<"S", "y", "n", "c", "|", "z", "z", "z", "|", "3", "p", "m">>, date |-> <<"z", "z", "z">>, incomplete |-> FALSE],
     [op |-> "create_calendar_event", text |-> <<"|", "z", "z", "z", "|", "3", "p", "m">>, date |-> <<"z", "z", "z">>, incomplete |-> TRUE],
     [op |-> "create_calendar_event", text |-> <<"S", "y", "n", "c">>, date |-> <<>>, incomplete |-> TRUE],
     [op |-> "create_calendar_event", text |-> <<"S", "y", "n", "c", "|", "|", "3", "p", "m">>, date |-> <<>>, incomplete |-> TRUE],
     [op |-> "create_calendar_event", text |-> <<"S", "y", "n", "c", "|", "t", "h", "i", "s", " ", "w", "e", "e", "k", "|", "3", "p", "m">>, date |-> <<"t", "h", "i", "s", " ", "w", "e", "e", "k">>, incomplete |-> FALSE],
     [op |-> "check_calendar_availability", text |-> <<"z", "z", "z">>, date |-> <<"z", "z", "z">>, incomplete |-> FALSE],
     [op |-> "check_calendar_availability", text |-> <<>>, date |-> <<>>, incomplete |-> FALSE],
     [op |-> "check_calendar_availability", text |-> <<"n", "e", "x", "t", " ", "w", "e", "e", "k", "|", "2", "p", "m">>, date |-> <<"n", "e", "x", "t", " ", "w", "e", "e", "k">>, incomplete |-> FALSE],
     [op |-> "check_calendar_availability", text |-> <<"2", "0", "2", "5", "-", "0", "2", "-", "3", "0">>, date |-> <<"2", "0", "2", "5", "-", "0", "2", "-", "3", "0">>, incomplete |-> FALSE],
     [op |-> "check_weather_for_event", text |-> <<"z", "z", "z", "|", "P", "a", "r", "i", "s">>, date |-> <<"z", "z", "z">>, incomplete |-> FALSE],
     [op |-> "check_weather_for_event", text |-> <<"u", "p", "c", "o", "m", "i", "n", "g">>, date |-> <<"u", "p", "c", "o", "m", "i", "n", "g">>, incomplete |-> FALSE]}

InvalidDateText == "Error: Invalid date format '{date}'. Use 'today', 'tomorrow', or YYYY-MM-DD"

RequiredText == "Error: Title and date are required. Format: 'title|date|time|location|attendees'"

\* C22 as stated: when the date field of a create_calendar_event,
\* check_calendar_availability or check_weather_for_event request resolves
\* to no date, the tool replies "Invalid date format", calls no backend and
\* does not raise.
C22_InvalidDateReplied ==
    \A c \in UnresolvedRequests : (lastOp = c.op /\ lastText = c.text) =>
        /\ reply.template = InvalidDateText
        /\ calls = <<>>
        /\ ~reply.raised

\* C22, amended: such a request is answered by an error reply, no backend is
\* called and nothing is raised; the reply is "Invalid date format" naming
\* the date field, except that create_calendar_event replies "Title and date
\* are required" when the title or the date field is empty or missing.
C22_ErrorRepliedAndNoBackendCall ==
    \A c \in UnresolvedRequests : (lastOp = c.op /\ lastText = c.text) =>
        /\ calls = <<>>
        /\ ~reply.raised
        /\ IF c.incomplete
           THEN reply.template = RequiredText
           ELSE reply.template = InvalidDateText /\ reply.args = <<c.date>>

\* "Sync|zzz|3pm": the reply names zzz and create_event was not called
C22_ZzzRefused ==
    /\ lastOp = "create_calendar_event"
    /\ lastText = <<"S", "y", "n", "c", "|", "z", "z", "z", "|", "3", "p", "m">>
    /\ reply.template = InvalidDateText
    /\ reply.args = <<T_zzz>>
    /\ calls = <<>>

(***************************************************************************)
(* C23: a weekday token anywhere in the text.                              *)
(***************************************************************************)
\* texts that hold a weekday token, with the weekday (Monday 0) of the token
\* the Pattern Matcher takes: the first in the order Monday .. Sunday
TokenCases ==
    {[text |-> WeekdayNames[n + 1], weekday |-> n] : n \in 0..6}
        \cup {[text |-> SubSeq(WeekdayNames[n + 1], 1, 3), weekday |-> n] : n \in 0..6}
        \cup {[text |-> <<"n", "e", "x", "t", " ">> \o WeekdayNames[n + 1], weekday |-> n] : n \in 0..6}
        \cup {[text |-> <<"n", "e", "x", "t", " ">> \o SubSeq(WeekdayNames[n + 1], 1, 3),
               weekday |-> n] : n \in 0..6}
        \cup {[text |-> T_friday_3pm,       weekday |-> 4],
              [text |-> T_Sunday_or_Monday, weekday |-> 0],
              [text |-> T_sunset,           weekday |-> 6],
              [text |-> T_Next_WED_sp,      weekday |-> 2],
              [text |-> T_wedding_saturday, weekday |-> 2],
              [text |-> T_next_fri_or_thu,  weekday |-> 3]}

\* C23: on a text that holds a weekday token and is no keyword, _parse_manual
\* returns the Reference Instant plus k days with k in 1..7, on the weekday
\* of the token: never the Reference Instant's own date, never more than
\* 7 days ahead.
C23_TokenGivesNextOccurrence ==
    \A c \in TokenCases : (lastOp = "_parse_manual" /\ lastText = c.text) =>
        \E k \in 1..7 :
            /\ lastResult.datetime = Some(DaysAfter(lastNow, k))
            /\ WeekdayOfInstant(DaysAfter(lastNow, k)) = c.weekday

\* "Sunday or Monday" on a Monday: Monday is taken, a week ahead
C23_MondayBeforeSunday ==
    /\ lastOp = "_parse_manual"
    /\ lastText = T_Sunday_or_Monday
    /\ WeekdayOfInstant(lastNow) = 0
    /\ lastResult.datetime = Some(DaysAfter(lastNow, 7))

(***************************************************************************)
(* C24: the order of the time patterns.                                    *)
(***************************************************************************)
\* texts in which more than one pattern matches, with the time of the
\* pattern that comes first in the order: colon form, hour with am/pm, four
\* digits
PriorityCases ==
    {[text |-> T_3pm_14_30,   time |-> <<"1", "4", ":", "3", "0">>],
     [text |-> T_1430_or_2pm, time |-> <<"1", "4", ":", "0", "0">>],
     [text |-> T_0900_7_05,   time |-> <<"0", "7", ":", "0", "5">>],
     [text |-> T_5_pm_1100,   time |-> <<"1", "7", ":", "0", "0">>],
     [text |-> T_call_0915,   time |-> <<"0", "9", ":", "1", "5">>]}

\* C24: parse_time returns the result of the first pattern, in the order
\* colon form, hour with am/pm, four digits, that matches anywhere in the
\* text, wherever the matches of the later patterns sit; it returns absent
\* only for a text that no pattern matches.
C24_FirstPatternInOrderWins ==
    lastOp = "parse_time" =>
        /\ \A c \in PriorityCases : lastText = c.text => lastResult.time = Some(c.time)
        /\ lastResult.time = None => lastText = T_zzz

\* "1430 or 2pm": the hour with pm wins over the four digits before it
C24_MeridiemBeforeDigits ==
    /\ lastOp = "parse_time"
    /\ lastText = T_1430_or_2pm
    /\ lastResult.time = Some(<<"1", "4", ":", "0", "0">>)

(***************************************************************************)
(* C25: date and time resolved independently by the facade.                *)
(***************************************************************************)
\* the time of day written in each text the facade is called with
FacadeTimeCases ==
    {[text |-> T_friday_3pm,       time |-> Some(<<"1", "5", ":", "0", "0">>)],
     [text |-> T_tomorrow_3pm_PST, time |-> Some(<<"1", "5", ":", "0", "0">>)],
     [text |-> T_zzz,              time |-> None]}

\* C25: when the library gives nothing for the whole text,
\* extract_datetime_components returns as time what parse_time gives for the
\* text ("15:00" for "friday 3pm", not the clock time of the Reference
\* Instant), and as date what the Pattern Matcher gives for it.
C25_DateAndTimeIndependent ==
    (lastOp = "extract_datetime_components" /\ trace[1] # "lib:hit") =>
        /\ \A c \in FacadeTimeCases : lastText = c.text => lastResult.time = c.time
        /\ lastText = T_friday_3pm =>
               \E k \in 1..7 : /\ WeekdayOfInstant(DaysAfter(lastNow, k)) = 4
                               /\ ShowsDate(lastResult.date, DaysAfter(lastNow, k))

(***************************************************************************)
(* C26: the cache under concurrent callers.                                *)
(***************************************************************************)
\* the cache writes made for text
WritesOf(text) == {i \in 1..Len(threads.writes) : threads.writes[i].text = text}

\* C26: when the callers of one parser are serialized, every key of the
\* cache is written at most once and every date written is still the entry
\* of its key; the state in which a later write has replaced an earlier one
\* is reached only by callers that are not serialized.
C26_OneWritePerKeyWhenSerialized ==
    threads.serialized =>
        /\ \A text \in ThreadTexts : Cardinality(WritesOf(text)) <= 1
        /\ \A i \in 1..Len(threads.writes) :
               cache[threads.writes[i].text] = threads.writes[i].date

\* two unserialized callers of "zzz": both missed the cache, both invoked
\* the model, the second write replaced the first, and the callers hold
\* different dates
C26_LaterWriteReplacesEarlier ==
    /\ ~threads.serialized
    /\ threads.made = <<1, 1>>
    /\ threads.pc = <<"done", "done">>
    /\ threads.text = <<T_zzz, T_zzz>>
    /\ Len(threads.writes) = 2
    /\ threads.writes[1].thread # threads.writes[2].thread
    /\ threads.writes[1].date # threads.writes[2].date
    /\ threads.result[threads.writes[1].thread] = Some(threads.writes[1].date)
    /\ threads.result[threads.writes[2].thread] = Some(threads.writes[2].date)
    /\ cache[T_zzz] = threads.writes[2].date

(***************************************************************************)
(* C27: what the cache holds.                                              *)
(***************************************************************************)
\* the Pattern Matcher has no rule for text: it is none of the keywords and
\* holds no weekday abbreviation (every weekday name holds its own)
NoPattern(text) ==
    /\ Strip(Lower(text)) \notin
           {<<"t", "o", "d", "a", "y">>, <<"t", "o", "m", "o", "r", "r", "o", "w">>,
            <<"y", "e", "s", "t", "e", "r", "d", "a", "y">>,
            <<"n", "e", "x", "t", " ", "w", "e", "e", "k">>,
            <<"t", "h", "i", "s", " ", "w", "e", "e", "k">>}
    /\ \A n \in 0..6 : ~Contains(SubSeq(WeekdayNames[n + 1], 1, 3), Lower(text))

\* every key is a text without a pattern, every value the midnight of the
\* date that some answer of the model names
CacheSound ==
    \A text \in DOMAIN cache :
        /\ NoPattern(text)
        /\ \E o \in ModelOutcomes :
               /\ ~o.raises
               /\ IsDateText(Strip(o.text))
               /\ cache[text] = DateNamedBy(Strip(o.text))

\* an entry appears only for the text of a parse_date or facade call whose
\* last resolution went: library silent or raising, no pattern, cache miss,
\* model answer accepted
InsertedByResolver ==
    \A text \in (DOMAIN cache') \ (DOMAIN cache) :
        /\ lastText' = text
        /\ lastOp' \in {"parse_date", "extract_datetime_components"}
        /\ Len(trace') >= 4
        /\ trace'[Len(trace') - 3] \in {"lib:miss", "lib:raise"}
        /\ SubSeq(trace', Len(trace') - 2, Len(trace')) = <<"manual:miss", "cache:miss", "llm:ok">>

\* C27: in every reachable state each key of the cache is a text the Pattern
\* Matcher has no match for, inserted in a resolution in which the library
\* gave nothing or raised, and each value is a valid date at midnight named
\* by a model answer that passed validation; the Pattern Matcher, the
\* library and parse_time create no entry.
C27_CacheHoldsOnlyModelDates == []CacheSound /\ [][InsertedByResolver]_vars

\* "tomorrow 3pm PST" cached after the library raised on it
C27_CachedAfterLibraryRaise ==
    /\ lastText = T_tomorrow_3pm_PST
    /\ trace = <<"lib:raise", "manual:miss", "cache:miss", "llm:ok">>
    /\ T_tomorrow_3pm_PST \in DOMAIN cache
    /\ cache[T_tomorrow_3pm_PST].hour = 0

(***************************************************************************)
(* C28: the fallback path without a model.                                 *)
(***************************************************************************)
\* what the library did each time the call consulted it
LibraryDid == SelectSeq(trace, LAMBDA e : e \in LibEvents)

\* the library did the same every time within the call
LibrarySteady == \A i \in 1..Len(LibraryDid) : LibraryDid[i] = LibraryDid[1]

\* C28: with no model and a library that answers the same within one call,
\* every result of the fallback path of extract_datetime_components has the
\* date absent, so a result with a timezone has no date.
C28_FallbackHasNoDate ==
    (~llm /\ lastOp = "extract_datetime_components" /\ LibrarySteady) =>
        /\ FellBack => lastResult.date = None
        /\ lastResult.timezone # None => lastResult.date = None

\* "tomorrow 3pm PST", the library silent twice: a time and a timezone, no
\* date
C28_TomorrowWithoutDate ==
    /\ ~llm
    /\ lastOp = "extract_datetime_components"
    /\ lastText = T_tomorrow_3pm_PST
    /\ trace = <<"lib:miss", "manual:miss", "lib:miss", "manual:miss">>
    /\ lastResult.date = None
    /\ lastResult.time = Some(<<"1", "5", ":", "0", "0">>)
    /\ lastResult.timezone = Some("America/Los_Angeles")

=============================================================================
